---- MODULE Spec2Model ----
(***************************************************************************)
(* Moat: payout-commitment construction (leaf encoding, Merkle root, memo  *)
(* digest), the demo page's commit / verify handlers and the on-chain      *)
(* commitment registry they talk to.                                       *)
(*                                                                         *)
(* Representation.                                                         *)
(*  - A JS string is a sequence of code points.                            *)
(*  - A Uint8Array is a sequence of blocks.  A block is one literal byte    *)
(*    [b |-> 0..255], or the 32 bytes of a public key [key |-> k], or one  *)
(*    SHA-256 digest [pre |-> preimage], which stands for the 32 bytes of  *)
(*    the digest of that preimage.  Two digests are equal exactly when     *)
(*    their preimages are: the hash is treated as collision-free and its   *)
(*    output as opaque.                                                    *)
(*  - A bigint / BN is [neg |-> BOOLEAN, mag |-> little-endian base-256    *)
(*    digits without leading zeros], so that 2^64 and its neighbours are   *)
(*    ordinary values.                                                     *)
(*  - A thrown Error is [err |-> message]; a returned value is [ok |-> v]. *)
(***************************************************************************)
EXTENDS Integers, Sequences, FiniteSets, TLC

(***************************************************************************)
(* Bounds of the model.                                                    *)
(***************************************************************************)
\* longest leaf sequence handed to computeMerkleRoot on its own
MaxLeaves == 4
\* number of distinct leaf digests those sequences are drawn from
NumLeafValues == 3
\* longest recipient list of a batch
MaxRecipients == 2
\* tabs that have the page open
MaxTabs == 2
\* onConnect invocations, all tabs together
MaxConnects == 2
\* onCommit invocations when one tab is open
MaxCommits == 3
\* onCommit invocations, all tabs together, when more are open
MaxCommitsShared == 2
\* latest time the ledger's clock reaches
MaxClock == 1
\* clients of the registry directory
MaxDirClients == 2
\* callInitialize and registerEntry invocations, all clients together
MaxDirCalls == 4

(***************************************************************************)
(* Program constants.                                                      *)
(***************************************************************************)
HASH_BYTES == 32
\* length of a public key
PUBKEY_BYTES == 32
\* width of the index field written by toU32Le
U32_BYTES == 4
\* width of the batch id field written by toU64Le
U64_BYTES == 8
\* "moat:v1"
MOAT_LEAF_PREFIX == <<109, 111, 97, 116, 58, 118, 49>>

(***************************************************************************)
(* State.                                                                  *)
(***************************************************************************)
VARIABLES
  \* one call of computeMerkleRoot
  mkLeaves,     \* the argument
  mkPc,         \* "off" | "called" | "loop" | "returned" | "thrown"
  mkLevel,      \* the local variable level
  mkLevels,     \* the values level has had, oldest first
  mkHashCalls,  \* sha256 calls made so far
  mkResult,     \* the value returned or the error thrown
  \* two computations of a root from recipients, for one creator and batch id
  lfCreator,    \* base58 creator
  lfBatchId,    \* bigint batch id
  lfRecipients, \* run -> recipient list
  lfPc,         \* run -> "off" | "ready" | "done" | "thrown"
  lfInOrder,    \* run -> whether the leaf hashes completed in index order
  lfLeaves,     \* run -> the array buildLeafHashes resolved to
  lfRoot,       \* run -> the result of computeMerkleRoot
  \* the demo page, open in several tabs, and the ledger
  page,         \* tab -> the React state of the page
  call,         \* tab -> the onCommit invocation in flight: its place and closure
  accounts,     \* the batch accounts of the registry program
  ledgerClock,  \* the ledger's time
  txLog,        \* the commit_batch transactions the program has processed, each with
                \* the registry before and after it
  clicks,       \* onConnect and onCommit invocations so far
  \* one call of an exported function
  fn,           \* the function, its arguments, and once it has run its outcome
  \* the registry directory and its clients
  dirState,     \* the directory's state account, if initialised
  dirEntries,   \* the entry accounts created since the start, oldest first
  dirGenesis,   \* the directory's state account at the start
  dirCall,      \* client -> the callInitialize or registerEntry call in flight
  dirLog,       \* the initialize and register_entry transactions processed
  dirClicks     \* callInitialize and registerEntry invocations so far

mkVars == <<mkLeaves, mkPc, mkLevel, mkLevels, mkHashCalls, mkResult>>
lfVars == <<lfCreator, lfBatchId, lfRecipients, lfPc, lfInOrder, lfLeaves, lfRoot>>
pgVars == <<page, call, accounts, ledgerClock, txLog, clicks>>
fnVars == <<fn>>
dirVars == <<dirState, dirEntries, dirGenesis, dirCall, dirLog, dirClicks>>
vars == <<mkVars, lfVars, pgVars, fnVars, dirVars>>

(***************************************************************************)
(* Errors and results.                                                     *)
(***************************************************************************)
Throw(msg) == [err |-> msg]
Ok(v) == [ok |-> v]
IsErr(r) == "err" \in DOMAIN r
IsOk(r) == "ok" \in DOMAIN r
\* JS undefined (an out-of-range array read)
Undefined == [undefined |-> TRUE]

(***************************************************************************)
(* Bytes.                                                                  *)
(***************************************************************************)
Byte(n) == [b |-> n]
IsDigestBlock(x) == "pre" \in DOMAIN x
IsKeyBlock(x) == "key" \in DOMAIN x

RECURSIVE ByteLength(_)
ByteLength(bytes) ==
  IF bytes = <<>> THEN 0
  ELSE (IF IsDigestBlock(Head(bytes)) THEN HASH_BYTES
        ELSE IF IsKeyBlock(Head(bytes)) THEN PUBKEY_BYTES
        ELSE 1) + ByteLength(Tail(bytes))

\* concatBytes(...chunks): the chunks laid end to end in one fresh array
RECURSIVE ConcatBytes(_)
ConcatBytes(chunks) ==
  IF chunks = <<>> THEN <<>> ELSE Head(chunks) \o ConcatBytes(Tail(chunks))

\* sha256(data): a 32-byte array determined by data, and only by data
Sha256(data) == <<[pre |-> data]>>

\* TextEncoder.encode: UTF-8, one byte below U+0080, two bytes below U+0800
RECURSIVE TextEncode(_)
TextEncode(str) ==
  IF str = <<>> THEN <<>>
  ELSE LET cp == Head(str) IN
       (IF cp < 128 THEN <<Byte(cp)>>
        ELSE <<Byte(192 + (cp \div 64)), Byte(128 + (cp % 64))>>)
       \o TextEncode(Tail(str))

(***************************************************************************)
(* Numbers.                                                                *)
(***************************************************************************)
\* little-endian base-256 digits of a natural number, no leading zeros
RECURSIVE Digits256(_)
Digits256(n) == IF n = 0 THEN <<>> ELSE <<n % 256>> \o Digits256(n \div 256)

BigNat(n) == [neg |-> FALSE, mag |-> Digits256(n)]

\* a JS number: whole is Number.isInteger, neg the sign, mag the base-256
\* digits of its integer part (NaN and fractions are not whole)
Num(n) == [neg |-> n < 0, mag |-> Digits256(IF n < 0 THEN 0 - n ELSE n), whole |-> TRUE]
NumberIsInteger(value) == value.whole

\* toU32Le(value): 4 bytes little-endian, or "Index must be a valid u32"
ToU32Le_Wrap(value) ==
  IF ~NumberIsInteger(value) \/ value.neg
  THEN Throw("Index must be a valid u32")
  ELSE Ok([i \in 1..U32_BYTES |->
             Byte(IF i <= Len(value.mag) THEN value.mag[i] ELSE 0)])
ToU32Le(value) ==
  IF ~NumberIsInteger(value) \/ value.neg \/ Len(value.mag) > U32_BYTES
  THEN Throw("Index must be a valid u32")
  ELSE Ok([i \in 1..U32_BYTES |->
             Byte(IF i <= Len(value.mag) THEN value.mag[i] ELSE 0)])

\* toU64Le(value): 8 bytes little-endian, or "Batch id must be a valid u64"
ToU64Le(value) ==
  IF value.neg \/ Len(value.mag) > U64_BYTES
  THEN Throw("Batch id must be a valid u64")
  ELSE Ok([i \in 1..U64_BYTES |-> Byte(IF i <= Len(value.mag) THEN value.mag[i] ELSE 0)])

(***************************************************************************)
(* Identities.  The 32 bytes of public key k are one block [key |-> k];    *)
(* the base58 text of a byte array is kept as the bytes it decodes to.     *)
(***************************************************************************)
PublicKey(k) == <<[key |-> k]>>
ToBase58(bytes) == [b58 |-> bytes]
Bs58Decode(text) == text.b58

(***************************************************************************)
(* hashLeaf, buildLeafHashes                                               *)
(***************************************************************************)
\* the bytes hashLeaf hashes, or the error it throws before hashing
HashLeafData_AmountFirst(input) ==
  LET creatorBytes == Bs58Decode(input.creator)
      batch == ToU64Le(input.batchId)
      index == ToU32Le(input.index)
  IN IF ByteLength(creatorBytes) # 32 THEN Throw("Creator pubkey must be 32 bytes")
     ELSE IF IsErr(batch) THEN batch
     ELSE IF IsErr(index) THEN index
     ELSE Ok(ConcatBytes(<<TextEncode(MOAT_LEAF_PREFIX),
                           creatorBytes,
                           batch.ok,
                           index.ok,
                           TextEncode(input.recipient.amount),
                           TextEncode(input.recipient.recipientCaip10),
                           TextEncode(input.recipient.assetCaip19)>>))
HashLeafData(input) ==
  LET creatorBytes == Bs58Decode(input.creator)
      batch == ToU64Le(input.batchId)
      index == ToU32Le(input.index)
  IN IF ByteLength(creatorBytes) # 32 THEN Throw("Creator pubkey must be 32 bytes")
     ELSE IF IsErr(batch) THEN batch
     ELSE IF IsErr(index) THEN index
     ELSE Ok(ConcatBytes(<<TextEncode(MOAT_LEAF_PREFIX),
                           creatorBytes,
                           batch.ok,
                           index.ok,
                           TextEncode(input.recipient.recipientCaip10),
                           TextEncode(input.recipient.amount),
                           TextEncode(input.recipient.assetCaip19)>>))

HashLeaf(input) ==
  LET data == HashLeafData(input) IN
  IF IsErr(data) THEN data ELSE Ok(Sha256(data.ok))

\* recipients.map((recipient, index) => hashLeaf({creator, batchId, index, recipient})):
\* the promise of position i (one-based here) hashes index i - 1
LeafPromises_OneBased(creator, batchId, recipients) ==
  [i \in 1..Len(recipients) |->
     HashLeaf([creator |-> creator, batchId |-> batchId, index |-> Num(i),
               recipient |-> recipients[i]])]
LeafPromises(creator, batchId, recipients) ==
  [i \in 1..Len(recipients) |->
     HashLeaf([creator |-> creator, batchId |-> batchId, index |-> Num(i - 1),
               recipient |-> recipients[i]])]

\* Promise.all stores the value of the promise that settles in the slot of that
\* promise, whatever was settled before it
PromiseAllStore_Arrival(slots, settled, i, value) == [slots EXCEPT ![settled + 1] = value]
PromiseAllStore(slots, settled, i, value) == [slots EXCEPT ![i] = value]

\* the array Promise.all resolves to when the promises settle in the given order
RECURSIVE PromiseAllSettle(_, _, _, _)
PromiseAllSettle(promises, order, k, slots) ==
  IF k > Len(order) THEN slots
  ELSE PromiseAllSettle(promises, order, k + 1,
                        PromiseAllStore(slots, k - 1, order[k], promises[order[k]].ok))

CompletionOrders(n) ==
  {f \in [1..n -> 1..n] : \A i, j \in 1..n : i # j => f[i] # f[j]}

\* buildLeafHashes with the leaf hashes completing in the given order
BuildLeafHashes(creator, batchId, recipients, order) ==
  LET promises == LeafPromises(creator, batchId, recipients)
      rejected == {i \in 1..Len(recipients) : IsErr(promises[i])}
  IN IF rejected # {}
     THEN promises[CHOOSE i \in rejected : \A j \in rejected : i <= j]
     ELSE Ok(PromiseAllSettle(promises, order, 1,
                              [i \in 1..Len(recipients) |-> Undefined]))

(***************************************************************************)
(* computeMerkleRoot                                                       *)
(***************************************************************************)
\* if (leaves.length === 0) throw
IsEmptyInput_Never(leaves) == FALSE
IsEmptyInput(leaves) == Len(leaves) = 0

\* const right = level[i + 1] ?? left
RightOf(level, i) == IF i + 1 <= Len(level) THEN level[i + 1] ELSE level[i]

\* one pass of the for loop: positions (1,2), (3,4), ... of level (one-based)
NextLevel_PromoteOdd(level) ==
  [k \in 1..((Len(level) + 1) \div 2) |->
     IF 2 * k <= Len(level)
     THEN Sha256(ConcatBytes(<<level[2 * k - 1], level[2 * k]>>))
     ELSE level[2 * k - 1]]
NextLevel(level) ==
  [k \in 1..((Len(level) + 1) \div 2) |->
     Sha256(ConcatBytes(<<level[2 * k - 1], RightOf(level, 2 * k - 1)>>))]

\* while (level.length > 1)
LoopContinues_Always(level) == Len(level) >= 1
LoopContinues(level) == Len(level) > 1

\* return level[0]
ReturnValue_Hashed(level) == IF Len(level) >= 1 THEN Sha256(level[1]) ELSE Undefined
ReturnValue(level) == IF Len(level) >= 1 THEN level[1] ELSE Undefined

RECURSIVE Reduce(_)
Reduce(level) == IF LoopContinues(level) THEN Reduce(NextLevel(level)) ELSE ReturnValue(level)

ComputeMerkleRoot(leaves) ==
  IF IsEmptyInput(leaves)
  THEN Throw("At least one leaf is required to build the Merkle root")
  ELSE Ok(Reduce(leaves))

(***************************************************************************)
(* Strings and numbers of the page.                                        *)
(***************************************************************************)
Null == [null |-> TRUE]

IsSpace(cp) == cp \in {9, 10, 13, 32}
IsDigit(cp) == cp \in 48..57

RECURSIVE TrimStart(_)
TrimStart(str) ==
  IF str # <<>> /\ IsSpace(Head(str)) THEN TrimStart(Tail(str)) ELSE str
RECURSIVE TrimEnd(_)
TrimEnd(str) ==
  IF str # <<>> /\ IsSpace(str[Len(str)])
  THEN TrimEnd(SubSeq(str, 1, Len(str) - 1)) ELSE str
\* String.prototype.trim
Trim(str) == TrimEnd(TrimStart(str))

\* /^\d+$/.test(str)
AllDigits(str) == str # <<>> /\ \A i \in 1..Len(str) : IsDigit(str[i])

\* mag * m + carry, on little-endian base-256 digits
RECURSIVE MulAdd(_, _, _)
MulAdd(mag, m, carry) ==
  IF mag = <<>> THEN Digits256(carry)
  ELSE LET v == Head(mag) * m + carry IN <<v % 256>> \o MulAdd(Tail(mag), m, v \div 256)

RECURSIVE ParseDecimal(_, _)
ParseDecimal(str, acc) ==
  IF str = <<>> THEN acc
  ELSE ParseDecimal(Tail(str), MulAdd(acc, 10, Head(str) - 48))

\* BigInt(str) and new BN(str) of a string of decimal digits
BigIntOfDecimal(str) == [neg |-> FALSE, mag |-> ParseDecimal(str, <<>>)]

RECURSIVE StripZeros(_)
StripZeros(mag) ==
  IF mag # <<>> /\ mag[Len(mag)] = 0 THEN StripZeros(SubSeq(mag, 1, Len(mag) - 1)) ELSE mag

\* quotient and remainder of mag by 10, from the most significant digit down
RECURSIVE DivTen(_, _, _, _)
DivTen(mag, i, rem, quot) ==
  IF i = 0 THEN [quot |-> StripZeros(quot), rem |-> rem]
  ELSE LET v == rem * 256 + mag[i] IN
       DivTen(mag, i - 1, v % 10, <<v \div 10>> \o quot)

RECURSIVE DecimalDigits(_)
DecimalDigits(mag) ==
  IF mag = <<>> THEN <<>>
  ELSE LET qr == DivTen(mag, Len(mag), 0, <<>>) IN
       DecimalDigits(qr.quot) \o <<48 + qr.rem>>

\* bigint.toString() / BN.toString(): decimal, "-" first for a negative value
BigIntToString(v) ==
  IF v.mag = <<>> THEN <<48>>
  ELSE (IF v.neg THEN <<45>> ELSE <<>>) \o DecimalDigits(v.mag)

\* new BN(batchId.toString())
BnOfBigInt(v) ==
  LET str == BigIntToString(v) IN
  IF Head(str) = 45
  THEN [neg |-> TRUE, mag |-> ParseDecimal(Tail(str), <<>>)]
  ELSE BigIntOfDecimal(str)

\* parseU64(value)
ParseU64(value) ==
  LET trimmed == Trim(value) IN
  IF ~AllDigits(trimmed) THEN Throw("Batch id must be a non-negative integer")
  ELSE LET parsed == BigIntOfDecimal(trimmed) IN
       IF Len(parsed.mag) > U64_BYTES THEN Throw("Batch id exceeds u64 max")
       ELSE Ok(parsed)

\* parseKind(value): Number(trimmed) is above 255 exactly when it needs more than
\* one base-256 digit
ParseKind(value) ==
  LET trimmed == Trim(value) IN
  IF ~AllDigits(trimmed) THEN Throw("Kind must be a number between 0 and 255")
  ELSE LET mag == ParseDecimal(trimmed, <<>>) IN
       IF Len(mag) > 1 THEN Throw("Kind must be a number between 0 and 255")
       ELSE Ok([neg |-> FALSE, mag |-> mag, whole |-> TRUE])

\* toHex(bytes): two lowercase hex characters per byte; the 64 characters of an
\* opaque 32-byte block are kept as that block
HexDigit(n) == IF n < 10 THEN 48 + n ELSE 87 + n
RECURSIVE HexChars(_)
HexChars(bytes) ==
  IF bytes = <<>> THEN <<>>
  ELSE (IF "b" \in DOMAIN Head(bytes)
        THEN <<[c |-> HexDigit(Head(bytes).b \div 16)], [c |-> HexDigit(Head(bytes).b % 16)]>>
        ELSE <<[hexOf |-> Head(bytes)]>>)
       \o HexChars(Tail(bytes))
ToHex(bytes) == [hex |-> HexChars(bytes)]

(***************************************************************************)
(* hashMemo                                                                *)
(***************************************************************************)
\* JSON.stringify of a string: quoted, with " and \ escaped
RECURSIVE JsonEscape(_)
JsonEscape(str) ==
  IF str = <<>> THEN <<>>
  ELSE (IF Head(str) \in {34, 92} THEN <<92, Head(str)>> ELSE <<Head(str)>>)
       \o JsonEscape(Tail(str))
JsonString(str) == <<34>> \o JsonEscape(str) \o <<34>>

\* memo.title ?? ""
OrEmpty_Kept(opt) == IF opt = Undefined THEN <<117, 110, 100, 101, 102>> ELSE opt.str
OrEmpty(opt) == IF opt = Undefined THEN <<>> ELSE opt.str

\* {"title":...,"note":...,"createdAt":...}
MemoPayload(memo) ==
  <<123, 34, 116, 105, 116, 108, 101, 34, 58>> \o JsonString(OrEmpty(memo.title))
  \o <<44, 34, 110, 111, 116, 101, 34, 58>> \o JsonString(OrEmpty(memo.note))
  \o <<44, 34, 99, 114, 101, 97, 116, 101, 100, 65, 116, 34, 58>> \o JsonString(memo.createdAt)
  \o <<125>>

HashMemo(memo) == Sha256(TextEncode(MemoPayload(memo)))

(***************************************************************************)
(* commitBatch (client side) and the registry program.                     *)
(***************************************************************************)
\* "batch"
BATCH_SEED == <<98, 97, 116, 99, 104>>

\* PublicKey.findProgramAddressSync(seeds, programId): an address determined by
\* the seeds, and only by them
FindProgramAddress(seeds) == [pda |-> seeds]

\* toU8(value)
ToU8_TwoBytes(value) ==
  IF ~NumberIsInteger(value) \/ value.neg \/ Len(value.mag) > 2
  THEN Throw("Kind must be an integer between 0 and 255")
  ELSE Ok(value)
ToU8(value) ==
  IF ~NumberIsInteger(value) \/ value.neg \/ Len(value.mag) > 1
  THEN Throw("Kind must be an integer between 0 and 255")
  ELSE Ok(value)

\* batchId.toArrayLike(Uint8Array, "le", 8): the magnitude in 8 bytes
BnToArrayLe(bn, width) ==
  IF Len(bn.mag) > width THEN Throw("byte array longer than desired length")
  ELSE Ok([i \in 1..width |-> Byte(IF i <= Len(bn.mag) THEN bn.mag[i] ELSE 0)])

\* the seeds of the batch account
BatchSeeds_NoBatchId(creator, batchSeed) == <<TextEncode(BATCH_SEED), creator>>
BatchSeeds(creator, batchSeed) == <<TextEncode(BATCH_SEED), creator, batchSeed>>

\* assertHashLength(value, label)
AssertHashLength_AtMost(value, label) ==
  IF ByteLength(value) > HASH_BYTES
  THEN Throw(IF label = "Merkle root" THEN "Merkle root must be 32 bytes"
             ELSE "Memo hash must be 32 bytes")
  ELSE Ok(value)
AssertHashLength(value, label) ==
  IF ByteLength(value) # HASH_BYTES
  THEN Throw(IF label = "Merkle root" THEN "Merkle root must be 32 bytes"
             ELSE "Memo hash must be 32 bytes")
  ELSE Ok(value)

\* commitBatch up to .rpc(): the transaction it submits, or the error it throws;
\* the batch id argument is serialised as a u64, the magnitude in 8 bytes
CommitBatchTx_FixedCreator(wallet, batchId, merkleRoot, memoHash, kindNumber) ==
  LET creator == PublicKey(1)
      kind == ToU8(kindNumber)
      batchSeed == BnToArrayLe(batchId, U64_BYTES)
  IN IF IsErr(kind) THEN kind
     ELSE IF IsErr(AssertHashLength(merkleRoot, "Merkle root"))
     THEN AssertHashLength(merkleRoot, "Merkle root")
     ELSE IF IsErr(AssertHashLength(memoHash, "Memo hash"))
     THEN AssertHashLength(memoHash, "Memo hash")
     ELSE IF IsErr(batchSeed) THEN batchSeed
     ELSE Ok([signer |-> wallet,
              creator |-> creator,
              batch |-> FindProgramAddress(BatchSeeds(creator, batchSeed.ok)),
              batchId |-> [neg |-> FALSE, mag |-> batchId.mag],
              merkleRoot |-> merkleRoot,
              memoHash |-> memoHash,
              kind |-> kind.ok])
CommitBatchTx(wallet, batchId, merkleRoot, memoHash, kindNumber) ==
  LET creator == wallet
      kind == ToU8(kindNumber)
      batchSeed == BnToArrayLe(batchId, U64_BYTES)
  IN IF IsErr(kind) THEN kind
     ELSE IF IsErr(AssertHashLength(merkleRoot, "Merkle root"))
     THEN AssertHashLength(merkleRoot, "Merkle root")
     ELSE IF IsErr(AssertHashLength(memoHash, "Memo hash"))
     THEN AssertHashLength(memoHash, "Memo hash")
     ELSE IF IsErr(batchSeed) THEN batchSeed
     ELSE Ok([signer |-> wallet,
              creator |-> creator,
              batch |-> FindProgramAddress(BatchSeeds(creator, batchSeed.ok)),
              batchId |-> [neg |-> FALSE, mag |-> batchId.mag],
              merkleRoot |-> merkleRoot,
              memoHash |-> memoHash,
              kind |-> kind.ok])

\* the account at an address, if any
AccountAt(accts, address) ==
  IF \E a \in accts : a.address = address
  THEN CHOOSE a \in accts : a.address = address
  ELSE Null

\* the registry program's commit_batch: the creator must sign, the batch account
\* must be the address derived from (creator, batch id) and must not exist yet;
\* the record is then created with the ledger's time
ProgramCommitBatch_Overwrite(accts, now, tx) ==
  [result |-> "ok",
   accounts |-> {a \in accts : a.address # tx.batch} \cup
                {[address |-> tx.batch, creator |-> tx.creator, batchId |-> tx.batchId,
                  kind |-> tx.kind, merkleRoot |-> tx.merkleRoot,
                  memoHash |-> tx.memoHash, createdAt |-> now]}]
ProgramCommitBatch(accts, now, tx) ==
  IF tx.signer # tx.creator
  THEN [result |-> "Unauthorized", accounts |-> accts]
  ELSE IF tx.batch # FindProgramAddress(<<TextEncode(BATCH_SEED), tx.creator,
                                          BnToArrayLe(tx.batchId, U64_BYTES).ok>>)
  THEN [result |-> "InvalidSeeds", accounts |-> accts]
  ELSE IF AccountAt(accts, tx.batch) # Null
  THEN [result |-> "AlreadyCommitted", accounts |-> accts]
  ELSE [result |-> "ok",
        accounts |-> accts \cup
          {[address |-> tx.batch, creator |-> tx.creator, batchId |-> tx.batchId,
            kind |-> tx.kind, merkleRoot |-> tx.merkleRoot,
            memoHash |-> tx.memoHash, createdAt |-> now]}]

\* fetchBatchCommit(provider, creator, batchId): the record at the derived
\* address, or the error of a missing account
FetchBatchCommit(accts, creator, batchId) ==
  LET batchSeed == BnToArrayLe(batchId, U64_BYTES) IN
  IF IsErr(batchSeed) THEN batchSeed
  ELSE LET pda == FindProgramAddress(BatchSeeds(creator, batchSeed.ok))
           account == AccountAt(accts, pda)
       IN IF account = Null THEN Throw("Account does not exist or has no data")
          ELSE Ok([pda |-> pda, creator |-> account.creator, batchId |-> account.batchId,
                   kind |-> account.kind, createdAt |-> account.createdAt,
                   merkleRoot |-> account.merkleRoot, memoHash |-> account.memoHash])

(***************************************************************************)
(* One call of computeMerkleRoot, a loop pass at a time.                   *)
(***************************************************************************)
LeafValues == {Sha256(<<Byte(v)>>) : v \in 1..NumLeafValues}

RECURSIVE SeqsUpTo(_, _)
SeqsUpTo(S, n) ==
  IF n = 0 THEN {<<>>}
  ELSE LET shorter == SeqsUpTo(S, n - 1) IN
       shorter \cup {Append(s, x) : s \in {t \in shorter : Len(t) = n - 1}, x \in S}

Tabs == DOMAIN page
Wallets == {PublicKey(1), PublicKey(2)}

\* no onCommit running; of a running one: where it is, which finalize attempt
\* it is in, how many times it has called .rpc() of commitBatch, the error its
\* first attempt was retried after, and whether it has created a record
NoCall ==
  [pc |-> "idle", attempt |-> 0, provider |-> Null, batchId |-> Null,
   merkleRoot |-> <<>>, memoHash |-> <<>>, kindNumber |-> Num(0),
   sent |-> 0, retriedAfter |-> Null, created |-> FALSE]

\* the page as loaded, in an environment with or without crypto.subtle
NewPage(subtle) ==
  [status |-> "idle", walletAddress |-> Null, provider |-> Null,
   signature |-> Null, errorMessage |-> Null, merkleRootHex |-> Null,
   memoHashHex |-> Null, batchInfo |-> Null, verificationMessage |-> Null,
   commitSnapshot |-> Null, adapterStatus |-> Null, subtle |-> subtle]

PagesInit(pages) ==
  /\ page = pages
  /\ call = [t \in DOMAIN pages |-> NoCall]
  /\ accounts = {}
  /\ ledgerClock = 0
  /\ txLog = {}
  /\ clicks = [connect |-> 0, commit |-> 0]

PageInit(tabs) == PagesInit([t \in 1..tabs |-> NewPage(TRUE)])

FnOff == fn = [op |-> "none", pc |-> "off"]

DirectoryOff ==
  /\ dirState = Null /\ dirEntries = <<>> /\ dirGenesis = Null
  /\ dirCall = <<>> /\ dirLog = {} /\ dirClicks = 0

MerkleOff ==
  /\ mkLeaves = <<>> /\ mkPc = "off" /\ mkLevel = <<>> /\ mkLevels = <<>>
  /\ mkHashCalls = 0 /\ mkResult = Undefined

Runs == 1..2

LeavesOff ==
  /\ lfCreator = ToBase58(<<>>) /\ lfBatchId = BigNat(0)
  /\ lfRecipients = [r \in Runs |-> <<>>]
  /\ lfPc = [r \in Runs |-> "off"]
  /\ lfInOrder = [r \in Runs |-> TRUE]
  /\ lfLeaves = [r \in Runs |-> Undefined]
  /\ lfRoot = [r \in Runs |-> Undefined]

InitMerkle ==
  /\ mkLeaves \in SeqsUpTo(LeafValues, MaxLeaves)
  /\ mkPc = "called" /\ mkLevel = <<>> /\ mkLevels = <<>>
  /\ mkHashCalls = 0 /\ mkResult = Undefined
  /\ LeavesOff
  /\ PageInit(1)
  /\ FnOff
  /\ DirectoryOff

\* entry: the guard, then let level = leaves.slice()
MerkleEnter ==
  /\ mkPc = "called"
  /\ IF IsEmptyInput(mkLeaves)
     THEN /\ mkPc' = "thrown"
          /\ mkResult' = Throw("At least one leaf is required to build the Merkle root")
          /\ UNCHANGED <<mkLevel, mkLevels>>
     ELSE /\ mkPc' = "loop"
          /\ mkLevel' = mkLeaves
          /\ mkLevels' = <<mkLeaves>>
          /\ UNCHANGED mkResult
  /\ UNCHANGED <<mkLeaves, mkHashCalls, lfVars, pgVars, fnVars, dirVars>>

\* one pass of the while loop: one sha256 call per pair
MerklePass ==
  /\ mkPc = "loop"
  /\ LoopContinues(mkLevel)
  /\ mkLevel' = NextLevel(mkLevel)
  /\ mkLevels' = Append(mkLevels, mkLevel')
  /\ mkHashCalls' = mkHashCalls + Len(mkLevel')
  /\ UNCHANGED <<mkLeaves, mkPc, mkResult, lfVars, pgVars, fnVars, dirVars>>

\* the loop has ended: return level[0]
MerkleReturn ==
  /\ mkPc = "loop"
  /\ ~LoopContinues(mkLevel)
  /\ mkPc' = "returned"
  /\ mkResult' = Ok(ReturnValue(mkLevel))
  /\ UNCHANGED <<mkLeaves, mkLevel, mkLevels, mkHashCalls, lfVars, pgVars, fnVars, dirVars>>

NextMerkle == MerkleEnter \/ MerklePass \/ MerkleReturn

SpecMerkle == InitMerkle /\ [][NextMerkle]_vars

\* the call is never suspended for ever: each await of sha256 resolves
SpecMerkleFair == SpecMerkle /\ WF_vars(NextMerkle)

(***************************************************************************)
(* Two computations of a root from recipient lists, one after the other,   *)
(* for the same creator and batch id.                                      *)
(***************************************************************************)
\* "a", "ab", "bc", "c", "d"
RecipientIds == {<<97>>, <<97, 98>>}
Amounts == {<<99>>, <<98, 99>>}
Assets == {<<100>>}
RecipientValues ==
  {[recipientCaip10 |-> r, amount |-> a, assetCaip19 |-> t] :
     r \in RecipientIds, a \in Amounts, t \in Assets}

\* (creator, batch id) pairs: wallet 1 with batch 0, wallet 2 with batch 258
LeafContexts ==
  {<<ToBase58(PublicKey(1)), BigNat(0)>>, <<ToBase58(PublicKey(2)), BigNat(258)>>}

InitLeaves ==
  /\ \E ctx \in LeafContexts : lfCreator = ctx[1] /\ lfBatchId = ctx[2]
  /\ lfRecipients \in [Runs -> SeqsUpTo(RecipientValues, MaxRecipients)]
  /\ lfPc = [r \in Runs |-> "ready"]
  /\ lfInOrder = [r \in Runs |-> TRUE]
  /\ lfLeaves = [r \in Runs |-> Undefined]
  /\ lfRoot = [r \in Runs |-> Undefined]
  /\ MerkleOff
  /\ PageInit(1)
  /\ FnOff
  /\ DirectoryOff

RunFinished(r) == lfPc[r] \in {"done", "thrown"}

\* const leaves = await buildLeafHashes(creator, batchId, recipients), the leaf
\* hashes completing in any order; const merkleRoot = await computeMerkleRoot(leaves)
LeafRun(r) ==
  /\ lfPc[r] = "ready"
  /\ r = 2 => RunFinished(1)
  /\ \E order \in CompletionOrders(Len(lfRecipients[r])) :
     \E leaves \in {BuildLeafHashes(lfCreator, lfBatchId, lfRecipients[r], order)} :
     \E root \in {IF IsErr(leaves) THEN leaves ELSE ComputeMerkleRoot(leaves.ok)} :
       /\ lfLeaves' = [lfLeaves EXCEPT ![r] = leaves]
       /\ lfRoot' = [lfRoot EXCEPT ![r] = root]
       /\ lfInOrder' = [lfInOrder EXCEPT ![r] = \A i \in DOMAIN order : order[i] = i]
       /\ lfPc' = [lfPc EXCEPT ![r] = IF IsErr(root) THEN "thrown" ELSE "done"]
  /\ UNCHANGED <<lfCreator, lfBatchId, lfRecipients, mkVars, pgVars, fnVars, dirVars>>

NextLeaves == \E r \in Runs : LeafRun(r)

SpecLeaves == InitLeaves /\ [][NextLeaves]_vars

(***************************************************************************)
(* The demo page (one copy per tab) against the ledger.                    *)
(***************************************************************************)
\* what the form can hold when Commit is clicked: "0", " 7", "x" / "0", "300" /
\* rows of (" a","bc","d"), ("ab","c","d"), ("a","","d") / "t" / ""
BatchIdInputs == {<<48>>, <<32, 55>>, <<120>>}
KindInputs == {<<48>>, <<51, 48, 48>>}
Row(r, a, t) == [recipientCaip10 |-> r, amount |-> a, assetCaip19 |-> t]
RecipientInputs ==
  { <<Row(<<32, 97>>, <<98, 99>>, <<100>>)>>,
    <<Row(<<97, 98>>, <<99>>, <<100>>), Row(<<32, 97>>, <<98, 99>>, <<100>>)>>,
    <<Row(<<97>>, <<>>, <<100>>)>> }
TitleInputs == {<<116>>}
NoteInputs == {<<>>}
\* new Date().toISOString(): "T1"
ClientTimes == {<<84, 49>>}
Forms ==
  {f \in [batchIdInput : BatchIdInputs, kindInput : KindInputs, recipients : RecipientInputs,
          title : TitleInputs, note : NoteInputs, createdAt : ClientTimes] :
     Len(f.recipients) = 2 => f.batchIdInput = <<48>> /\ f.kindInput = <<48>>}

\* errors of the RPC layer that reach the page without the program having run
SendTransportErrors ==
  {"Transaction simulation failed: Blockhash not found",
   "failed to send transaction: blockhash not found",
   "Network request failed"}
FetchTransportErrors == {"Network request failed"}

\* isBlockhashError(message): the messages of the model that contain
\* "blockhash not found" once lower-cased
IsBlockhashError_CaseSensitive(message) ==
  message \in {"failed to send transaction: blockhash not found"}
IsBlockhashError(message) ==
  message \in {"Transaction simulation failed: Blockhash not found",
               "failed to send transaction: blockhash not found"}

\* onCommit calls explored: MaxCommits with one tab open, MaxCommitsShared in
\* all with more
CommitLimit == IF Cardinality(Tabs) = 1 THEN MaxCommits ELSE MaxCommitsShared

IsBusy(pg) == pg.status \in {"connecting", "building", "sending"}

\* buildProvider(wallet)
BuildProvider(wallet, conn) == [wallet |-> wallet, conn |-> conn]

\* recipients.map(... trim ...)
CleanRecipients(rows) ==
  [i \in 1..Len(rows) |->
     Row(Trim(rows[i].recipientCaip10), Trim(rows[i].amount), Trim(rows[i].assetCaip19))]

\* cleanedRecipients.forEach(...): the first missing field, if any
RecipientError(cleaned) ==
  LET bad == {i \in 1..Len(cleaned) :
                \/ cleaned[i].recipientCaip10 = <<>>
                \/ cleaned[i].amount = <<>>
                \/ cleaned[i].assetCaip19 = <<>>}
  IN IF bad = {} THEN Null
     ELSE LET i == CHOOSE k \in bad : \A j \in bad : k <= j IN
          IF cleaned[i].recipientCaip10 = <<>> THEN Throw("Recipient is missing CAIP-10")
          ELSE IF cleaned[i].amount = <<>> THEN Throw("Recipient is missing amount")
          ELSE Throw("Recipient is missing CAIP-19")

\* title.trim() || undefined
OptionalText(str) == IF Trim(str) = <<>> THEN Undefined ELSE [str |-> Trim(str)]

\* what the snapshot keeps of the recipients
SnapshotRecipients_Raw(rows, cleaned) == rows
SnapshotRecipients(rows, cleaned) == cleaned

IndexOrder(n) == [i \in 1..n |-> i]

\* getSubtle()
GetSubtle(subtle) ==
  IF ~subtle THEN Throw("WebCrypto is not available in this environment")
  ELSE Ok(subtle)

\* new MockAdapter().execute(plan) for the plan of id batch-<batchId>
AdapterExecute(batchId) ==
  [orderId |-> [mock |-> BigIntToString(batchId)], status |-> "complete"]

\* onCommit from parseU64 to setCommitSnapshot: everything the page computes
\* before it sends, or the first error thrown, with the adapter's result if the
\* adapter had run
PrepareCommit(walletAddress, subtle, form) ==
  LET batchId == ParseU64(form.batchIdInput)
      kindNumber == ParseKind(form.kindInput)
      cleaned == CleanRecipients(form.recipients)
      memo == [title |-> OptionalText(form.title), note |-> OptionalText(form.note),
               createdAt |-> form.createdAt]
  IN IF IsErr(batchId) THEN batchId
     ELSE IF IsErr(kindNumber) THEN kindNumber
     ELSE IF Len(cleaned) = 0 THEN Throw("Add at least one recipient")
     ELSE IF RecipientError(cleaned) # Null THEN RecipientError(cleaned)
     ELSE LET adapterResult == AdapterExecute(batchId.ok)
              leaves == IF subtle
                        THEN BuildLeafHashes(walletAddress, batchId.ok, cleaned,
                                             IndexOrder(Len(cleaned)))
                        ELSE GetSubtle(subtle)
          IN IF IsErr(leaves) THEN [err |-> leaves.err, adapterStatus |-> adapterResult]
             ELSE LET root == ComputeMerkleRoot(leaves.ok) IN
                  IF IsErr(root) THEN [err |-> root.err, adapterStatus |-> adapterResult]
                  ELSE Ok([batchId |-> batchId.ok,
                           kindNumber |-> kindNumber.ok,
                           adapterStatus |-> adapterResult,
                           merkleRoot |-> root.ok,
                           memoHash |-> HashMemo(memo),
                           snapshot |-> [batchId |-> batchId.ok,
                                         recipients |-> SnapshotRecipients(form.recipients, cleaned),
                                         memo |-> memo,
                                         kind |-> kindNumber.ok]])

\* onConnect: the fields reset, then the wallet connects or does not
Cleared(pg) ==
  [pg EXCEPT !.errorMessage = Null, !.signature = Null, !.merkleRootHex = Null,
             !.memoHashHex = Null, !.batchInfo = Null, !.verificationMessage = Null,
             !.commitSnapshot = Null, !.adapterStatus = Null]

OnConnect(t) ==
  /\ ~IsBusy(page[t])
  /\ clicks.connect < MaxConnects
  /\ clicks' = [clicks EXCEPT !.connect = @ + 1]
  /\ \/ \E w \in Wallets :
          page' = [page EXCEPT ![t] =
                     [Cleared(@) EXCEPT !.walletAddress = ToBase58(w),
                                        !.provider = BuildProvider(w, "initial"),
                                        !.status = "connected"]]
     \/ page' = [page EXCEPT ![t] =
                   [Cleared(@) EXCEPT !.errorMessage = [msg |-> "Phantom not found"],
                                      !.status = "error"]]
  /\ UNCHANGED <<call, accounts, ledgerClock, txLog, mkVars, lfVars, fnVars, dirVars>>

\* onCommit up to setStatus("sending"), or into the catch block
OnCommit(t) ==
  /\ ~IsBusy(page[t])
  /\ clicks.commit < CommitLimit
  /\ clicks' = [clicks EXCEPT !.commit = @ + 1]
  /\ IF page[t].provider = Null \/ page[t].walletAddress = Null
     THEN /\ page' = [page EXCEPT ![t].errorMessage = [msg |-> "Connect Phantom first"],
                                  ![t].status = "error"]
          /\ UNCHANGED call
     ELSE
     \E form \in Forms :
     \E prep \in {PrepareCommit(page[t].walletAddress, page[t].subtle, form)} :
       IF IsErr(prep)
       THEN /\ page' = [page EXCEPT ![t] =
                          [Cleared(@) EXCEPT !.errorMessage = [msg |-> prep.err],
                                             !.adapterStatus =
                                                IF "adapterStatus" \in DOMAIN prep
                                                THEN prep.adapterStatus ELSE Null,
                                             !.status = "error"]]
            /\ UNCHANGED call
       ELSE /\ page' = [page EXCEPT ![t] =
                          [Cleared(@) EXCEPT !.adapterStatus = prep.ok.adapterStatus,
                                             !.merkleRootHex = ToHex(prep.ok.merkleRoot),
                                             !.memoHashHex = ToHex(prep.ok.memoHash),
                                             !.commitSnapshot = prep.ok.snapshot,
                                             !.status = "sending"]]
            /\ call' = [call EXCEPT ![t] =
                          [pc |-> "send", attempt |-> 1, provider |-> page[t].provider,
                           batchId |-> prep.ok.batchId, merkleRoot |-> prep.ok.merkleRoot,
                           memoHash |-> prep.ok.memoHash, kindNumber |-> prep.ok.kindNumber,
                           sent |-> 0, retriedAfter |-> Null, created |-> FALSE]]
  /\ UNCHANGED <<accounts, ledgerClock, txLog, mkVars, lfVars, fnVars, dirVars>>

\* finalize threw: retry once with a rebuilt provider after a blockhash error on
\* the first attempt, else the outer catch block
Thrown(t, message, rpc) ==
  IF call[t].attempt = 1 /\ IsBlockhashError(message)
  THEN /\ page' = [page EXCEPT ![t].provider =
                     BuildProvider(call[t].provider.wallet, "refreshed")]
       /\ call' = [call EXCEPT ![t].pc = "send", ![t].attempt = 2,
                               ![t].provider =
                                 BuildProvider(call[t].provider.wallet, "refreshed"),
                               ![t].sent = @ + rpc,
                               ![t].retriedAfter = [msg |-> message]]
  ELSE /\ page' = [page EXCEPT ![t].errorMessage = [msg |-> message],
                               ![t].status = "error"]
       /\ call' = [call EXCEPT ![t] = NoCall]

\* sendCommit: commitBatch builds the transaction and the program runs it
SendCommit(t) ==
  /\ call[t].pc = "send"
  /\ \E tx \in {CommitBatchTx(call[t].provider.wallet, BnOfBigInt(call[t].batchId),
                              call[t].merkleRoot, call[t].memoHash, call[t].kindNumber)} :
       IF IsErr(tx)
       THEN /\ Thrown(t, tx.err, 0)
            /\ UNCHANGED <<accounts, ledgerClock, txLog>>
       ELSE \E now \in ledgerClock..MaxClock :
            \E run \in {ProgramCommitBatch(accounts, now, tx.ok)} :
              /\ accounts' = run.accounts
              /\ ledgerClock' = now
              /\ txLog' = txLog \cup {[tab |-> t, attempt |-> call[t].attempt,
                                         tx |-> tx.ok, result |-> run.result,
                                         before |-> accounts,
                                         after |-> run.accounts]}
              /\ IF run.result = "ok"
                 THEN /\ page' = [page EXCEPT ![t].signature = [sig |-> Cardinality(txLog) + 1]]
                      /\ call' = [call EXCEPT ![t].pc = "fetch", ![t].sent = @ + 1,
                                              ![t].created = TRUE]
                 ELSE Thrown(t, run.result, 1)
  /\ UNCHANGED <<clicks, mkVars, lfVars, fnVars, dirVars>>

\* sendCommit: the RPC layer fails before the program runs
SendCommitTransportError(t) ==
  /\ call[t].pc = "send"
  /\ \E message \in SendTransportErrors : Thrown(t, message, 1)
  /\ UNCHANGED <<accounts, ledgerClock, txLog, clicks, mkVars, lfVars, fnVars, dirVars>>

\* createdAtLabel: the ISO text of the record's time
CreatedAtLabel(seconds) == [iso |-> seconds]

\* finalize after sendCommit: fetchBatchCommit, setBatchInfo, setStatus("confirmed")
FetchBatch(t) ==
  /\ call[t].pc = "fetch"
  /\ \E batch \in {FetchBatchCommit(accounts, call[t].provider.wallet,
                                    BnOfBigInt(call[t].batchId))} :
       IF IsErr(batch)
       THEN Thrown(t, batch.err, 0)
       ELSE /\ page' = [page EXCEPT
                          ![t].batchInfo =
                             [pda |-> ToBase58(<<batch.ok.pda>>),
                              creator |-> ToBase58(batch.ok.creator),
                              batchId |-> BigIntToString(batch.ok.batchId),
                              kind |-> batch.ok.kind,
                              createdAt |-> CreatedAtLabel(batch.ok.createdAt),
                              merkleRoot |-> ToHex(batch.ok.merkleRoot),
                              memoHash |-> ToHex(batch.ok.memoHash)],
                          ![t].status = "confirmed"]
            /\ call' = [call EXCEPT ![t] = NoCall]
  /\ UNCHANGED <<accounts, ledgerClock, txLog, clicks, mkVars, lfVars, fnVars, dirVars>>

\* fetchBatchCommit: the RPC layer fails
FetchTransportError(t) ==
  /\ call[t].pc = "fetch"
  /\ \E message \in FetchTransportErrors : Thrown(t, message, 0)
  /\ UNCHANGED <<accounts, ledgerClock, txLog, clicks, mkVars, lfVars, fnVars, dirVars>>

\* the digests onVerify recomputes from the snapshot
Recompute(walletAddress, snapshot) ==
  LET leaves == BuildLeafHashes(walletAddress, snapshot.batchId, snapshot.recipients,
                                IndexOrder(Len(snapshot.recipients)))
  IN IF IsErr(leaves) THEN leaves
     ELSE LET root == ComputeMerkleRoot(leaves.ok) IN
          IF IsErr(root) THEN root
          ELSE Ok([merkleHex |-> ToHex(root.ok),
                   memoHex |-> ToHex(HashMemo(snapshot.memo))])

\* onVerify: the digests are recomputed locally, no network call is awaited
OnVerify(t) ==
  /\ page[t].commitSnapshot # Null
  /\ IF page[t].walletAddress = Null
     THEN page' = [page EXCEPT ![t].verificationMessage =
                     [msg |-> "No committed batch to verify"]]
     ELSE \E again \in {Recompute(page[t].walletAddress, page[t].commitSnapshot)} :
            page' = [page EXCEPT ![t].verificationMessage =
                       IF IsErr(again) THEN [msg |-> "verification error"]
                       ELSE IF \/ again.ok.merkleHex # page[t].merkleRootHex
                               \/ again.ok.memoHex # page[t].memoHashHex
                       THEN [msg |-> "verification failed: hash mismatch"]
                       ELSE [msg |-> "verification passed: hashes match"]]
  /\ UNCHANGED <<call, accounts, ledgerClock, txLog, clicks, mkVars, lfVars, fnVars, dirVars>>

\* the tabs opened: up to MaxTabs where crypto.subtle is available, or one where
\* it is not
Init ==
  /\ MerkleOff /\ LeavesOff /\ FnOff /\ DirectoryOff
  /\ \/ \E tabs \in 1..MaxTabs : PageInit(tabs)
     \/ PagesInit(<<NewPage(FALSE)>>)

Next ==
  \E t \in Tabs :
    \/ OnConnect(t)
    \/ OnCommit(t)
    \/ SendCommit(t)
    \/ SendCommitTransportError(t)
    \/ FetchBatch(t)
    \/ FetchTransportError(t)
    \/ OnVerify(t)

Spec == Init /\ [][Next]_vars

(***************************************************************************)
(* Properties of computeMerkleRoot (under SpecMerkle).                     *)
(***************************************************************************)
Last(seq) == seq[Len(seq)]
IsOdd(n) == n % 2 = 1

\* C6: at every level of odd length greater than 1 the last digest is paired
\* with itself: the last digest of the next level is Hash(last || last) and not
\* the last digest promoted unchanged; for leaves [A,B,C] the root is
\* Hash(Hash(A || B) || Hash(C || C)).
C6_OddLevelDuplicatesLast ==
  /\ \A k \in 1..(Len(mkLevels) - 1) :
       (IsOdd(Len(mkLevels[k])) /\ Len(mkLevels[k]) > 1) =>
         /\ Last(mkLevels[k + 1]) = Sha256(Last(mkLevels[k]) \o Last(mkLevels[k]))
         /\ Last(mkLevels[k + 1]) # Last(mkLevels[k])
  /\ (mkPc = "returned" /\ Len(mkLeaves) = 3) =>
       mkResult = Ok(Sha256(Sha256(mkLeaves[1] \o mkLeaves[2])
                            \o Sha256(mkLeaves[3] \o mkLeaves[3])))

C6_Witness ==
  /\ mkPc = "returned" /\ Len(mkLeaves) = 3
  /\ mkLeaves[1] # mkLeaves[2] /\ mkLeaves[2] # mkLeaves[3] /\ mkLeaves[1] # mkLeaves[3]
  /\ Len(mkLevels) = 3 /\ Len(mkLevels[2]) = 2

\* C7: for a single-leaf input the root returned is that leaf itself, and no
\* sha256 call was made.
C7_SingleLeafIsRoot ==
  (mkPc = "returned" /\ Len(mkLeaves) = 1) =>
    /\ mkResult = Ok(mkLeaves[1])
    /\ mkHashCalls = 0
    /\ mkLevels = <<mkLeaves>>

C7_Witness == mkPc = "returned" /\ Len(mkLeaves) = 1 /\ mkResult = Ok(mkLeaves[1])

\* C8: on an empty leaf sequence the call throws the empty-input error without
\* any sha256 call, and it throws in no other case; on every non-empty sequence
\* the call, once over, has returned a 32-byte root.
C8_EmptyInputThrows ==
  /\ mkPc = "thrown" =>
       /\ Len(mkLeaves) = 0
       /\ mkResult = Throw("At least one leaf is required to build the Merkle root")
       /\ mkHashCalls = 0
  /\ Len(mkLeaves) = 0 => mkPc \in {"called", "thrown"} /\ mkHashCalls = 0
  /\ mkPc = "returned" =>
       /\ Len(mkLeaves) > 0
       /\ IsOk(mkResult) /\ Len(mkResult.ok) = 1 /\ ByteLength(mkResult.ok) = HASH_BYTES
  /\ (Len(mkLeaves) > 0 /\ mkPc = "loop") => (ENABLED MerklePass \/ ENABLED MerkleReturn)

C8_Witness == mkPc = "thrown" /\ Len(mkLeaves) = 0 /\ IsErr(mkResult)

(***************************************************************************)
(* Properties of the root of a recipient list (under SpecLeaves).          *)
(***************************************************************************)
BothDone == lfPc[1] = "done" /\ lfPc[2] = "done"

\* the bytes a recipient contributes to its leaf preimage
RecipientBytes(rc) ==
  TextEncode(rc.recipientCaip10) \o TextEncode(rc.amount) \o TextEncode(rc.assetCaip19)

\* C5: for one creator and batch id, two different recipient sequences
\* (differing in length, order or any recipient field) have different roots.
C5_DifferentBatchesDifferentRoots ==
  (BothDone /\ lfRecipients[1] # lfRecipients[2]) => lfRoot[1] # lfRoot[2]

\* What the code does guarantee: two recipient sequences with equal roots have
\* the same length and, position by position, the same concatenation
\* recipient || amount || asset.
RootDeterminesRecipientBytes ==
  (BothDone /\ lfRoot[1] = lfRoot[2]) =>
    /\ Len(lfRecipients[1]) = Len(lfRecipients[2])
    /\ \A i \in 1..Len(lfRecipients[1]) :
         RecipientBytes(lfRecipients[1][i]) = RecipientBytes(lfRecipients[2][i])

\* C9: for every batch of two (different) recipients, the batch with the two
\* recipients swapped has a different root.
C9_SwapChangesRoot ==
  ( /\ BothDone
    /\ Len(lfRecipients[1]) = 2
    /\ lfRecipients[1][1] # lfRecipients[1][2]
    /\ lfRecipients[2] = <<lfRecipients[1][2], lfRecipients[1][1]>> )
  => lfRoot[1] # lfRoot[2]

\* What the code does guarantee: swapping two recipients whose concatenations
\* recipient || amount || asset differ changes the root.
SwapOfDistinctBytesChangesRoot ==
  ( /\ BothDone
    /\ Len(lfRecipients[1]) = 2
    /\ RecipientBytes(lfRecipients[1][1]) # RecipientBytes(lfRecipients[1][2])
    /\ lfRecipients[2] = <<lfRecipients[1][2], lfRecipients[1][1]>> )
  => lfRoot[1] # lfRoot[2]

\* C10: two runs of buildLeafHashes then computeMerkleRoot on the same creator,
\* batch id and recipient sequence give the same leaves and the same root,
\* whatever the order in which the leaf hashes of each run completed.
C10_RootIsDeterministic ==
  (BothDone /\ lfRecipients[1] = lfRecipients[2]) =>
    /\ lfRoot[1] = lfRoot[2]
    /\ lfLeaves[1] = lfLeaves[2]

C10_Witness ==
  /\ BothDone
  /\ lfRecipients[1] = lfRecipients[2]
  /\ Len(lfRecipients[1]) >= 2
  /\ lfInOrder[1] /\ ~lfInOrder[2]
  /\ lfRoot[1] = lfRoot[2]

(***************************************************************************)
(* Properties of the registry under the page's commits (under Spec).       *)
(***************************************************************************)
\* the records a registry holds for (creator, batchId)
PairRecords(accts, creator, batchId) ==
  {a \in accts : a.creator = creator /\ a.batchId = batchId}

SamePair(e, f) == e.tx.creator = f.tx.creator /\ e.tx.batchId = f.tx.batchId

\* the record a transaction writes, whatever its address and time
Wrote(a, tx) ==
  /\ a.creator = tx.creator /\ a.batchId = tx.batchId /\ a.kind = tx.kind
  /\ a.merkleRoot = tx.merkleRoot /\ a.memoHash = tx.memoHash

\* C1: at most one commit per (creator, batchId) succeeds. A commit of a pair
\* that already has a record fails with AlreadyCommitted and leaves the registry
\* as it was; a commit of a pair that has none succeeds, whatever other batch
\* ids the creator has committed, and adds exactly its own record.
C1_AtMostOneCommitPerPair ==
  /\ \A e \in txLog :
       LET had == PairRecords(e.before, e.tx.creator, e.tx.batchId) IN
       /\ had # {} => e.result = "AlreadyCommitted" /\ e.after = e.before
       /\ had = {} =>
            /\ e.result = "ok"
            /\ \E a \in e.after : Wrote(a, e.tx) /\ e.after = e.before \cup {a}
  /\ \A e, f \in txLog :
       e.result = "ok" /\ f.result = "ok" /\ SamePair(e, f) => e = f

\* a second commit of a pair was refused, and the same creator then committed
\* another batch id
C1_Witness ==
  \E e, f \in txLog :
    /\ e.result = "AlreadyCommitted"
    /\ f.result = "ok"
    /\ f.tx.creator = e.tx.creator /\ f.tx.batchId # e.tx.batchId
    /\ PairRecords(f.before, e.tx.creator, e.tx.batchId) # {}

\* C2: a record, once in the registry, is in the registry in every later state
\* with the same address, creator, batchId, kind, merkleRoot, memoHash and
\* createdAt.
C2_RecordIsTerminal == [][\A a \in accounts : a \in accounts']_vars

\* a record that a later commit of its pair, with other digests and at a later
\* time, has tried to replace
C2_Witness ==
  \E a \in accounts : \E e \in txLog :
    /\ a \in e.before
    /\ e.tx.creator = a.creator /\ e.tx.batchId = a.batchId
    /\ e.tx.merkleRoot # a.merkleRoot
    /\ ledgerClock > a.createdAt

\* C3: of the submissions for one (creator, batchId) that the program has
\* processed, from any tab and any attempt, exactly one succeeded and every
\* other failed with AlreadyCommitted; the registry holds one record for the
\* pair, the one the successful submission wrote; and a tab whose submission
\* succeeded reads back its own digests.
C3_OneSubmissionWins ==
  /\ \A e \in txLog :
       /\ e.result \in {"ok", "AlreadyCommitted"}
       /\ \E f \in txLog :
            /\ SamePair(e, f) /\ f.result = "ok"
            /\ \A g \in txLog : SamePair(e, g) /\ g.result = "ok" => g = f
            /\ \E a \in accounts :
                 /\ PairRecords(accounts, e.tx.creator, e.tx.batchId) = {a}
                 /\ Wrote(a, f.tx)
  /\ \A a, b \in accounts : a.creator = b.creator /\ a.batchId = b.batchId => a = b
  /\ \A t \in Tabs :
       call[t].pc = "fetch" =>
         \E batch \in {FetchBatchCommit(accounts, call[t].provider.wallet,
                                        BnOfBigInt(call[t].batchId))} :
           /\ IsOk(batch)
           /\ batch.ok.merkleRoot = call[t].merkleRoot
           /\ batch.ok.memoHash = call[t].memoHash

\* two tabs submitted different digests for one pair; the loser was a retry
\* after a blockhash error
C3_Witness ==
  \E e, f \in txLog :
    /\ SamePair(e, f) /\ e.tab # f.tab
    /\ e.result = "ok" /\ f.result = "AlreadyCommitted"
    /\ f.attempt = 2
    /\ f.tx.merkleRoot # e.tx.merkleRoot

Passed == [msg |-> "verification passed: hashes match"]

\* C4: once a commit has succeeded and its record has been read back, the
\* digests recomputed from the wallet address and the snapshot equal those of
\* the record, as displayed and as the registry holds them; and verification
\* says "passed" only if the recomputed digests equal the digests the page
\* stored when it committed.
C4_RoundTripVerification ==
  \A t \in Tabs :
    /\ page[t].batchInfo # Null =>
         /\ page[t].commitSnapshot # Null
         /\ \E again \in {Recompute(page[t].walletAddress, page[t].commitSnapshot)} :
            \E batch \in {FetchBatchCommit(accounts, Bs58Decode(page[t].walletAddress),
                                           BnOfBigInt(page[t].commitSnapshot.batchId))} :
              /\ IsOk(again) /\ IsOk(batch)
              /\ again.ok.merkleHex = page[t].batchInfo.merkleRoot
              /\ again.ok.memoHex = page[t].batchInfo.memoHash
              /\ again.ok.merkleHex = ToHex(batch.ok.merkleRoot)
              /\ again.ok.memoHex = ToHex(batch.ok.memoHash)
    /\ page[t].verificationMessage = Passed =>
         /\ page[t].commitSnapshot # Null
         /\ \E again \in {Recompute(page[t].walletAddress, page[t].commitSnapshot)} :
              /\ IsOk(again)
              /\ again.ok.merkleHex = page[t].merkleRootHex
              /\ again.ok.memoHex = page[t].memoHashHex

\* a confirmed commit of two recipients typed with spaces around a field, then
\* verified
C4_Witness ==
  \E t \in Tabs :
    /\ page[t].status = "confirmed"
    /\ page[t].batchInfo # Null
    /\ page[t].verificationMessage = Passed
    /\ Len(page[t].commitSnapshot.recipients) = 2

(***************************************************************************)
(* The registry directory: its client (moatClient.ts) and its program.     *)
(***************************************************************************)
\* "state", "entry"
STATE_SEED == <<115, 116, 97, 116, 101>>
ENTRY_SEED == <<101, 110, 116, 114, 121>>

\* getRegistryPda(programId)
GetRegistryPda == FindProgramAddress(<<TextEncode(STATE_SEED)>>)

\* encodeU32Le(value): setUint32 keeps the low 32 bits
EncodeU32Le(value) ==
  [i \in 1..U32_BYTES |-> Byte(IF i <= Len(value.mag) THEN value.mag[i] ELSE 0)]

\* values as a deserializer hands them over: a PublicKey [pk], a BN [bn], a
\* number [num], a string [str], or undefined
IsPublicKey(value) == "pk" \in DOMAIN value
IsBN(value) == "bn" \in DOMAIN value
IsNumber(value) == "num" \in DOMAIN value \/ "nan" \in DOMAIN value
NaN == [nan |-> TRUE]

\* record.key: undefined for a key the object does not have
Field(record, key) == IF key \in DOMAIN record THEN record[key] ELSE Undefined

\* toU32(value): value.toNumber() is a TypeError on what is not a BN and asserts
\* at most 53 bits, then the range check
ToU32(value) ==
  IF ~IsBN(value) THEN Throw("value.toNumber is not a function")
  ELSE IF Len(value.bn.mag) > 7 \/ (Len(value.bn.mag) = 7 /\ value.bn.mag[7] >= 32)
  THEN Throw("Number can only safely store up to 53 bits")
  ELSE IF value.bn.neg \/ Len(value.bn.mag) > U32_BYTES
  THEN Throw("next_id overflow")
  ELSE Ok([neg |-> FALSE, mag |-> value.bn.mag, whole |-> TRUE])

\* program.account.registryState.fetch(statePda): the account as the
\* deserializer names its fields, or the error of a missing account
FetchedNamings == {"camel", "snake"}
RegistryStateFetch(state, naming) ==
  IF state = Null THEN Throw("Account does not exist or has no data")
  ELSE IF naming = "camel"
  THEN Ok([admin |-> [pk |-> state.admin],
           nextId |-> [bn |-> [neg |-> FALSE, mag |-> state.nextId]],
           bump |-> [num |-> Num(state.bump)]])
  ELSE Ok([admin |-> [pk |-> state.admin],
           next_id |-> [bn |-> [neg |-> FALSE, mag |-> state.nextId]],
           bump |-> [num |-> Num(state.bump)]])

\* isRegistryState(value)
IsRegistryState(value) ==
  IF value = Null \/ value = Undefined THEN FALSE
  ELSE LET admin == Field(value, "admin")
           bump == Field(value, "bump")
           nextId == Field(value, "nextId")
           nextIdSnake == Field(value, "next_id")
       IN IF ~IsPublicKey(admin) THEN FALSE
          ELSE IF ~IsNumber(bump) THEN FALSE
          ELSE IF IsBN(nextId) THEN TRUE
          ELSE IF IsBN(nextIdSnake) THEN TRUE
          ELSE FALSE

\* fetchRegistryState(provider) from the value fetch resolved to
RegistryStateOf(account) ==
  IF ~IsRegistryState(account) THEN Throw("Unexpected registry state shape")
  ELSE Ok([admin |-> account.admin,
           nextId |-> IF "nextId" \in DOMAIN account THEN account.nextId
                      ELSE account.next_id,
           bump |-> account.bump])

\* fetchRegistryState(provider)
FetchRegistryState(state, naming) ==
  LET account == RegistryStateFetch(state, naming) IN
  IF IsErr(account) THEN account
  ELSE RegistryStateOf(account.ok)

\* isRegistryEntry(value)
IsRegistryEntry(value) ==
  IF value = Null \/ value = Undefined THEN FALSE
  ELSE LET registry == Field(value, "registry")
           admin == Field(value, "admin")
           bump == Field(value, "bump")
           kind == Field(value, "kind")
           targetProgram == Field(value, "targetProgram")
           targetProgramSnake == Field(value, "target_program")
       IN IF ~IsPublicKey(registry) THEN FALSE
          ELSE IF ~IsPublicKey(admin) THEN FALSE
          ELSE IF ~IsNumber(bump) THEN FALSE
          ELSE IF ~IsNumber(kind) THEN FALSE
          ELSE IF IsPublicKey(targetProgram) THEN TRUE
          ELSE IF IsPublicKey(targetProgramSnake) THEN TRUE
          ELSE FALSE

\* Number(value): a number is itself, undefined is NaN, a string is the number
\* its trimmed text of digits denotes, 0 for a blank one, and NaN otherwise
NumberOf(value) ==
  IF IsNumber(value) THEN value
  ELSE IF "str" \in DOMAIN value /\ AllDigits(Trim(value.str))
  THEN [num |-> [neg |-> FALSE, mag |-> ParseDecimal(Trim(value.str), <<>>), whole |-> TRUE]]
  ELSE NaN

\* the callback of entries.map in fetchEntries
EntryOf(entry) ==
  LET account == entry.account IN
  IF ~IsRegistryEntry(account) THEN Throw("Unexpected registry entry shape")
  ELSE LET targetProgram == IF "targetProgram" \in DOMAIN account
                            THEN account.targetProgram ELSE account.target_program
           id == IF IsBN(Field(account, "id"))
                 THEN ToU32(account.id)
                 ELSE Ok(NumberOf(Field(account, "id")))
       IN IF IsErr(id) THEN id
          ELSE Ok([publicKey |-> entry.publicKey,
                   registry |-> account.registry,
                   id |-> IF IsBN(Field(account, "id")) THEN [num |-> id.ok] ELSE id.ok,
                   admin |-> account.admin,
                   targetProgram |-> targetProgram,
                   kind |-> account.kind,
                   bump |-> account.bump])

\* a.id - b.id < 0; a difference that is NaN orders nothing
RECURSIVE MagLess(_, _)
MagLess(a, b) ==
  IF Len(a) # Len(b) THEN Len(a) < Len(b)
  ELSE IF a = <<>> THEN FALSE
  ELSE IF a[Len(a)] # b[Len(b)] THEN a[Len(a)] < b[Len(b)]
  ELSE MagLess(SubSeq(a, 1, Len(a) - 1), SubSeq(b, 1, Len(b) - 1))
IdBefore(a, b) ==
  /\ "num" \in DOMAIN a /\ "num" \in DOMAIN b
  /\ IF a.num.neg # b.num.neg THEN a.num.neg
     ELSE IF a.num.neg THEN MagLess(b.num.mag, a.num.mag)
     ELSE MagLess(a.num.mag, b.num.mag)

\* .sort((a, b) => a.id - b.id), a stable sort, on up to two records
SortById(records) ==
  IF Len(records) = 2 /\ IdBefore(records[2].id, records[1].id)
  THEN <<records[2], records[1]>>
  ELSE records

\* fetchEntries(provider) from the entries all() resolved to: the first error
\* the callback throws, or the records sorted by id
RECURSIVE MapEntries(_)
MapEntries(entries) ==
  IF entries = <<>> THEN Ok(<<>>)
  ELSE LET first == EntryOf(Head(entries)) IN
       IF IsErr(first) THEN first
       ELSE LET rest == MapEntries(Tail(entries)) IN
            IF IsErr(rest) THEN rest ELSE Ok(<<first.ok>> \o rest.ok)
EntriesOf(entries) ==
  LET mapped == MapEntries(entries) IN
  IF IsErr(mapped) THEN mapped ELSE Ok(SortById(mapped.ok))

\* the seeds of an entry account
EntrySeeds_NoId(registryPda, entrySeed) == <<TextEncode(ENTRY_SEED), registryPda>>
EntrySeeds(registryPda, entrySeed) == <<TextEncode(ENTRY_SEED), registryPda, entrySeed>>

\* registerEntry from toU32 to .rpc(): the transaction it submits for the state
\* it fetched, or the error it throws; a blank text is the text of no bytes
RegisterEntryTx(wallet, state, targetProgramIdBase58, kindNumber) ==
  LET registryPda == GetRegistryPda
      nextId == ToU32(state.nextId)
      kind == ToU8(kindNumber)
      trimmedTargetProgram == Bs58Decode(targetProgramIdBase58)
  IN IF IsErr(nextId) THEN nextId
     ELSE IF IsErr(kind) THEN kind
     ELSE IF trimmedTargetProgram = <<>> THEN Throw("Target program id is required")
     ELSE IF ByteLength(trimmedTargetProgram) # PUBKEY_BYTES
     THEN Throw("Invalid public key input")
     ELSE Ok([op |-> "registerEntry",
              signer |-> wallet,
              authority |-> wallet,
              state |-> registryPda,
              entry |-> FindProgramAddress(EntrySeeds(registryPda, EncodeU32Le(nextId.ok))),
              targetProgram |-> trimmedTargetProgram,
              kind |-> kind.ok])

\* callInitialize after the existence check: the transaction it submits
InitializeTx(wallet) ==
  [op |-> "initialize", signer |-> wallet, authority |-> wallet, state |-> GetRegistryPda]

\* nextId + 1 on base-256 digits
Increment(mag) == MulAdd(mag, 1, 1)

\* the directory program's initialize: the state account must not exist yet
ProgramInitialize_Again(dir, tx) ==
  [result |-> "ok",
   state |-> [admin |-> tx.authority, nextId |-> <<>>, bump |-> 255],
   entries |-> dir.entries]
ProgramInitialize(dir, tx) ==
  IF dir.state # Null
  THEN [result |-> "AlreadyInitialized", state |-> dir.state, entries |-> dir.entries]
  ELSE [result |-> "ok",
        state |-> [admin |-> tx.authority, nextId |-> <<>>, bump |-> 255],
        entries |-> dir.entries]

\* the directory program's register_entry: the signer must be the recorded
\* admin, the entry account must be the address derived from (directory, nextId),
\* and nextId + 1 must fit a u32; the entry then takes id nextId and nextId grows
ProgramRegisterEntry_Unbounded(dir, tx) ==
  IF dir.state = Null
  THEN [result |-> "AccountNotInitialized", state |-> dir.state, entries |-> dir.entries]
  ELSE IF tx.signer # tx.authority \/ tx.authority # dir.state.admin
  THEN [result |-> "Unauthorized", state |-> dir.state, entries |-> dir.entries]
  ELSE IF tx.entry # FindProgramAddress(
                       EntrySeeds(tx.state, EncodeU32Le([mag |-> dir.state.nextId])))
  THEN [result |-> "InvalidSeeds", state |-> dir.state, entries |-> dir.entries]
  ELSE [result |-> "ok",
        state |-> [dir.state EXCEPT !.nextId = Increment(@)],
        entries |-> Append(dir.entries,
                           [address |-> tx.entry, registry |-> tx.state,
                            id |-> dir.state.nextId, admin |-> dir.state.admin,
                            targetProgram |-> tx.targetProgram, kind |-> tx.kind,
                            bump |-> 255])]
ProgramRegisterEntry_AnySigner(dir, tx) ==
  IF dir.state = Null
  THEN [result |-> "AccountNotInitialized", state |-> dir.state, entries |-> dir.entries]
  ELSE IF tx.entry # FindProgramAddress(
                       EntrySeeds(tx.state, EncodeU32Le([mag |-> dir.state.nextId])))
  THEN [result |-> "InvalidSeeds", state |-> dir.state, entries |-> dir.entries]
  ELSE IF dir.state.nextId = [i \in 1..U32_BYTES |-> 255]
  THEN [result |-> "CounterOverflow", state |-> dir.state, entries |-> dir.entries]
  ELSE [result |-> "ok",
        state |-> [dir.state EXCEPT !.nextId = Increment(@)],
        entries |-> Append(dir.entries,
                           [address |-> tx.entry, registry |-> tx.state,
                            id |-> dir.state.nextId, admin |-> dir.state.admin,
                            targetProgram |-> tx.targetProgram, kind |-> tx.kind,
                            bump |-> 255])]
ProgramRegisterEntry(dir, tx) ==
  IF dir.state = Null
  THEN [result |-> "AccountNotInitialized", state |-> dir.state, entries |-> dir.entries]
  ELSE IF tx.signer # tx.authority \/ tx.authority # dir.state.admin
  THEN [result |-> "Unauthorized", state |-> dir.state, entries |-> dir.entries]
  ELSE IF tx.entry # FindProgramAddress(
                       EntrySeeds(tx.state, EncodeU32Le([mag |-> dir.state.nextId])))
  THEN [result |-> "InvalidSeeds", state |-> dir.state, entries |-> dir.entries]
  ELSE IF dir.state.nextId = [i \in 1..U32_BYTES |-> 255]
  THEN [result |-> "CounterOverflow", state |-> dir.state, entries |-> dir.entries]
  ELSE [result |-> "ok",
        state |-> [dir.state EXCEPT !.nextId = Increment(@)],
        entries |-> Append(dir.entries,
                           [address |-> tx.entry, registry |-> tx.state,
                            id |-> dir.state.nextId, admin |-> dir.state.admin,
                            targetProgram |-> tx.targetProgram, kind |-> tx.kind,
                            bump |-> 255])]

(***************************************************************************)
(* Clients of the directory, each running callInitialize and registerEntry *)
(* against the same ledger.                                                *)
(***************************************************************************)
DirClients == 1..MaxDirClients

\* target program ids typed: a public key, a blank text
TargetTexts == {ToBase58(PublicKey(3)), ToBase58(<<>>)}
\* kinds passed: 1, 256
DirKinds == {Num(1), Num(256)}

\* 2^32 - 2: the last id register_entry can assign
LastIdDigits == [i \in 1..U32_BYTES |-> IF i = 1 THEN 254 ELSE 255]

\* the directory when the clients start: not initialised, or initialised long
\* ago by wallet 1 and two registrations short of the end of its counter
Geneses ==
  {Null, [admin |-> PublicKey(1), nextId |-> LastIdDigits, bump |-> 255]}

IdleCall == [pc |-> "idle", result |-> Null]

DirectoryInit(genesis) ==
  /\ dirState = genesis /\ dirEntries = <<>> /\ dirGenesis = genesis
  /\ dirCall = [c \in DirClients |-> IdleCall]
  /\ dirLog = {} /\ dirClicks = 0

Directory == [state |-> dirState, entries |-> dirEntries]

\* callInitialize up to .rpc(): getAccountInfo, then the throw or the submission
InitializeStart(c) ==
  /\ dirCall[c].pc = "idle"
  /\ dirClicks < MaxDirCalls
  /\ dirClicks' = dirClicks + 1
  /\ \E wallet \in Wallets :
       dirCall' = [dirCall EXCEPT ![c] =
                     IF dirState # Null
                     THEN [pc |-> "idle",
                           result |-> Throw("Registry already initialized on devnet")]
                     ELSE [pc |-> "send", tx |-> InitializeTx(wallet), result |-> Null]]
  /\ UNCHANGED <<dirState, dirEntries, dirGenesis, dirLog, mkVars, lfVars, pgVars, fnVars>>

\* registerEntry up to .rpc(): fetchRegistryState, then the throw or the submission
RegisterStart(c) ==
  /\ dirCall[c].pc = "idle"
  /\ dirClicks < MaxDirCalls
  /\ dirClicks' = dirClicks + 1
  /\ \E wallet \in Wallets, target \in TargetTexts, kindNumber \in DirKinds,
        naming \in FetchedNamings :
     \E state \in {FetchRegistryState(dirState, naming)} :
       IF IsErr(state)
       THEN dirCall' = [dirCall EXCEPT ![c] = [pc |-> "idle", result |-> state]]
       ELSE \E tx \in {RegisterEntryTx(wallet, state.ok, target, kindNumber)} :
              dirCall' = [dirCall EXCEPT ![c] =
                            IF IsErr(tx) THEN [pc |-> "idle", result |-> tx]
                            ELSE [pc |-> "send", tx |-> tx.ok, result |-> Null]]
  /\ UNCHANGED <<dirState, dirEntries, dirGenesis, dirLog, mkVars, lfVars, pgVars, fnVars>>

\* what a processed transaction leaves behind
Landed(c, run) ==
  /\ dirState' = run.state
  /\ dirEntries' = run.entries
  /\ dirLog' = dirLog \cup {[client |-> c, tx |-> dirCall[c].tx, result |-> run.result,
                             before |-> Directory,
                             after |-> [state |-> run.state, entries |-> run.entries]]}
  /\ dirCall' = [dirCall EXCEPT ![c] =
                   [pc |-> "idle",
                    result |-> IF run.result = "ok" THEN Ok([sig |-> Cardinality(dirLog) + 1])
                               ELSE Throw(run.result)]]

\* .rpc() of callInitialize: the program runs initialize
InitializeLand(c) ==
  /\ dirCall[c].pc = "send" /\ dirCall[c].tx.op = "initialize"
  /\ \E run \in {ProgramInitialize(Directory, dirCall[c].tx)} : Landed(c, run)
  /\ UNCHANGED <<dirGenesis, dirClicks, mkVars, lfVars, pgVars, fnVars>>

\* .rpc() of registerEntry: the program runs register_entry
RegisterLand(c) ==
  /\ dirCall[c].pc = "send" /\ dirCall[c].tx.op = "registerEntry"
  /\ \E run \in {ProgramRegisterEntry(Directory, dirCall[c].tx)} : Landed(c, run)
  /\ UNCHANGED <<dirGenesis, dirClicks, mkVars, lfVars, pgVars, fnVars>>

\* .rpc() rejects before the program has run
DirectoryTransportError(c) ==
  /\ dirCall[c].pc = "send"
  /\ dirCall' = [dirCall EXCEPT ![c] = [pc |-> "idle",
                                        result |-> Throw("Network request failed")]]
  /\ UNCHANGED <<dirState, dirEntries, dirGenesis, dirLog, dirClicks,
                 mkVars, lfVars, pgVars, fnVars>>

InitDirectory ==
  /\ MerkleOff /\ LeavesOff /\ PageInit(1) /\ FnOff
  /\ \E genesis \in Geneses : DirectoryInit(genesis)

NextDirectory ==
  \E c \in DirClients :
    \/ InitializeStart(c)
    \/ InitializeLand(c)
    \/ RegisterStart(c)
    \/ RegisterLand(c)
    \/ DirectoryTransportError(c)

SpecDirectory == InitDirectory /\ [][NextDirectory]_vars

(***************************************************************************)
(* Single calls of the exported functions, on arguments of every kind.     *)
(***************************************************************************)
\* 2^32 - 1, 2^32, 2^64 - 1 and 2^64 in base-256 digits
U32MaxDigits == [i \in 1..U32_BYTES |-> 255]
U32OverDigits == [i \in 1..(U32_BYTES + 1) |-> IF i = U32_BYTES + 1 THEN 1 ELSE 0]
U64MaxDigits == [i \in 1..U64_BYTES |-> 255]
U64OverDigits == [i \in 1..(U64_BYTES + 1) |-> IF i = U64_BYTES + 1 THEN 1 ELSE 0]

\* creators: a public key, and texts that decode to 1 and to 33 bytes
CreatorTexts ==
  {ToBase58(PublicKey(1)), ToBase58(<<Byte(1)>>), ToBase58(PublicKey(1) \o <<Byte(0)>>)}
\* bigint batch ids: 0, 258, 2^64 - 1, 2^64, -1
BatchIdValues ==
  {BigNat(0), BigNat(258), [neg |-> FALSE, mag |-> U64MaxDigits],
   [neg |-> FALSE, mag |-> U64OverDigits], [neg |-> TRUE, mag |-> <<1>>]}
\* number indexes: 0, 1, 2^32 - 1, 2^32, -1, 1.5
IndexValues ==
  {Num(0), Num(1), [neg |-> FALSE, mag |-> U32MaxDigits, whole |-> TRUE],
   [neg |-> FALSE, mag |-> U32OverDigits, whole |-> TRUE], Num(0 - 1),
   [neg |-> FALSE, mag |-> <<1>>, whole |-> FALSE]}
\* recipients ("a","bc","d"), ("ab","c","d"), ("é","",""), "é" being U+00E9
LeafRecipients ==
  {Row(<<97>>, <<98, 99>>, <<100>>), Row(<<97, 98>>, <<99>>, <<100>>),
   Row(<<233>>, <<>>, <<>>)}
LeafInputs ==
  [creator : CreatorTexts, batchId : BatchIdValues, index : IndexValues,
   recipient : LeafRecipients]

\* memos: title and note absent, "" or "t"; createdAt "T1" or "T2"
OptionalTexts == {Undefined, [str |-> <<>>], [str |-> <<116>>]}
MemoValues == [title : OptionalTexts, note : OptionalTexts, createdAt : {<<84, 49>>, <<84, 50>>}]

\* BN batch ids: 0, 258, 2^64 - 1, 2^64, -1
BnValues == BatchIdValues
\* byte arrays of 32, 31 and 33 bytes
HashArguments ==
  {Sha256(<<Byte(1)>>), [i \in 1..31 |-> Byte(0)], Sha256(<<Byte(1)>>) \o <<Byte(0)>>}
\* number kinds: 0, 255, 256, -1, 1.5
KindValues ==
  {Num(0), Num(255), Num(256), Num(0 - 1), [neg |-> FALSE, mag |-> <<1>>, whole |-> FALSE]}

\* texts typed as a kind: "0", "255", "256", "-1", "1.5", "", " 7 ", "x"
KindTexts ==
  {<<48>>, <<50, 53, 53>>, <<50, 53, 54>>, <<45, 49>>, <<49, 46, 53>>, <<>>,
   <<32, 55, 32>>, <<120>>}
\* texts typed as a batch id: "0", " 7", 2^64 - 1, 2^64, "-1", "x"
U64MaxText == <<49, 56, 52, 52, 54, 55, 52, 52, 48, 55, 51, 55, 48, 57, 53, 53, 49, 54, 49, 53>>
U64OverText == <<49, 56, 52, 52, 54, 55, 52, 52, 48, 55, 51, 55, 48, 57, 53, 53, 49, 54, 49, 54>>
BatchIdTexts == {<<48>>, <<32, 55>>, U64MaxText, U64OverText, <<45, 49>>, <<120>>}
\* the directory a registerEntry call finds: none, a new one, one with one id
\* left, one with none left
CallGeneses ==
  Geneses \cup {[admin |-> PublicKey(1), nextId |-> <<>>, bump |-> 255],
                [admin |-> PublicKey(1), nextId |-> U32MaxDigits, bump |-> 255]}
\* target program ids: a public key, a blank text, the text of one byte
CallTargetTexts == TargetTexts \cup {ToBase58(<<Byte(1)>>)}
\* what registryState.fetch may resolve to for the state (admin wallet 1, nextId
\* 3, bump 255): the camelCase and the snake_case object, objects with both
\* counter keys of which one is not a BN, and objects that are no state
RawAdmin == [pk |-> PublicKey(1)]
RawBump == [num |-> Num(255)]
RawCounter == [bn |-> BigNat(3)]
RawStates ==
  {[admin |-> RawAdmin, nextId |-> RawCounter, bump |-> RawBump],
   [admin |-> RawAdmin, next_id |-> RawCounter, bump |-> RawBump],
   [admin |-> RawAdmin, nextId |-> RawCounter, next_id |-> RawCounter, bump |-> RawBump],
   [admin |-> RawAdmin, nextId |-> Undefined, next_id |-> RawCounter, bump |-> RawBump],
   [admin |-> RawAdmin, nextId |-> [num |-> Num(3)], next_id |-> RawCounter,
    bump |-> RawBump],
   [admin |-> RawAdmin, nextId |-> RawCounter, next_id |-> Undefined, bump |-> RawBump],
   [admin |-> RawAdmin, nextId |-> [num |-> Num(3)], bump |-> RawBump],
   [admin |-> RawAdmin, bump |-> RawBump],
   [admin |-> [str |-> <<49>>], nextId |-> RawCounter, bump |-> RawBump],
   [admin |-> RawAdmin, next_id |-> RawCounter],
   Null}

\* what registryEntry.all may resolve to, entry by entry, for the entries of id
\* 0 and 1 of that directory: each in camelCase and in snake_case, with the id
\* a number, a BN or a string, or without one; and objects that are no entry
RawEntryIds == {[num |-> Num(0)], [num |-> Num(1)], [bn |-> BigNat(1)],
                [bn |-> [neg |-> FALSE, mag |-> U32OverDigits]], [str |-> <<120>>], Undefined}
RawEntryCamel(id) ==
  [registry |-> [pk |-> GetRegistryPda], id |-> id, admin |-> RawAdmin,
   targetProgram |-> [pk |-> PublicKey(3)], kind |-> [num |-> Num(1)], bump |-> RawBump]
RawEntrySnake(id) ==
  [registry |-> [pk |-> GetRegistryPda], id |-> id, admin |-> RawAdmin,
   target_program |-> [pk |-> PublicKey(3)], kind |-> [num |-> Num(1)], bump |-> RawBump]
RawEntries ==
  {RawEntryCamel(id) : id \in RawEntryIds \ {Undefined}}
  \cup {RawEntrySnake(id) : id \in RawEntryIds \ {Undefined}}
  \cup {[registry |-> [pk |-> GetRegistryPda], admin |-> RawAdmin,
          targetProgram |-> [pk |-> PublicKey(3)], kind |-> [num |-> Num(1)],
          bump |-> RawBump],
         [registry |-> [pk |-> GetRegistryPda], id |-> [num |-> Num(0)], admin |-> RawAdmin,
          kind |-> [num |-> Num(1)], bump |-> RawBump],
         [registry |-> [pk |-> GetRegistryPda], id |-> [num |-> Num(0)], admin |-> RawAdmin,
          targetProgram |-> [pk |-> PublicKey(3)], kind |-> [str |-> <<49>>],
          bump |-> RawBump]}
\* the entry account of id
EntryAddress(id) ==
  [pk |-> FindProgramAddress(EntrySeeds(GetRegistryPda, EncodeU32Le(Num(id))))]

\* commit transactions built without commitBatch: any wallet signs, naming any
\* wallet as the creator, for the batch account of the named creator's batch 0 or 1
ForeignTxs ==
  {[signer |-> signer, creator |-> creator,
    batch |-> FindProgramAddress(BatchSeeds(creator, BnToArrayLe(batchId, U64_BYTES).ok)),
    batchId |-> batchId, merkleRoot |-> Sha256(<<Byte(1)>>),
    memoHash |-> Sha256(<<Byte(2)>>), kind |-> Num(0)] :
   signer \in Wallets, creator \in Wallets, batchId \in {BigNat(0), BigNat(1)}}

InitCalls ==
  /\ MerkleOff /\ LeavesOff /\ PageInit(1)
  /\ \/ \E genesis \in CallGeneses, wallet \in Wallets, target \in CallTargetTexts,
           kindNumber \in KindValues, naming \in FetchedNamings :
          /\ DirectoryInit(genesis)
          /\ fn = [op |-> "registerEntry", pc |-> "ready", wallet |-> wallet,
                   targetProgramIdBase58 |-> target, kindNumber |-> kindNumber,
                   naming |-> naming, submitted |-> <<>>, result |-> Null]
     \/ DirectoryOff /\ \E first, second \in ForeignTxs :
          fn = [op |-> "foreignCommit", pc |-> "ready", txs |-> <<first, second>>,
                results |-> <<>>]
     \/ DirectoryOff /\ \E account \in RawStates :
          fn = [op |-> "fetchRegistryState", pc |-> "ready", account |-> account]
     \/ DirectoryOff /\ \E first, second \in RawEntries :
          fn = [op |-> "fetchEntries", pc |-> "ready",
                entries |-> <<[publicKey |-> EntryAddress(0), account |-> first],
                              [publicKey |-> EntryAddress(1), account |-> second]>>]
     \/ DirectoryOff /\ \E value \in KindTexts :
          fn = [op |-> "parseKind", pc |-> "ready", value |-> value]
     \/ DirectoryOff /\ \E value \in BatchIdTexts :
          fn = [op |-> "parseU64", pc |-> "ready", value |-> value]
     \/ DirectoryOff /\ \E input \in LeafInputs :
          fn = [op |-> "hashLeaf", pc |-> "ready", input |-> input]
     \/ DirectoryOff /\ \E memo, other \in MemoValues :
          fn = [op |-> "hashMemo", pc |-> "ready", memos |-> <<memo, other>>,
                results |-> <<>>]
     \/ DirectoryOff /\
        \E wallet \in Wallets, batchId \in BnValues, merkleRoot \in HashArguments,
           memoHash \in HashArguments, kindNumber \in KindValues :
          fn = [op |-> "commitBatch", pc |-> "ready", wallet |-> wallet,
                batchId |-> batchId, merkleRoot |-> merkleRoot, memoHash |-> memoHash,
                kindNumber |-> kindNumber, submitted |-> <<>>, result |-> Null]

\* hashLeaf(input): sha256 is called once, on the data, if the data were built
HashLeafCall ==
  /\ fn.op = "hashLeaf" /\ fn.pc = "ready"
  /\ \E data \in {HashLeafData(fn.input)} :
     \E result \in {HashLeaf(fn.input)} :
       fn' = [op |-> "hashLeaf", pc |-> "done", input |-> fn.input, result |-> result,
              hashed |-> IF IsErr(data) THEN <<>> ELSE <<data.ok>>]
  /\ UNCHANGED <<mkVars, lfVars, pgVars, dirVars>>

\* hashMemo(memo), for the first memo and then for the second
HashMemoCall ==
  /\ fn.op = "hashMemo" /\ fn.pc = "ready"
  /\ \E result \in {HashMemo(fn.memos[Len(fn.results) + 1])} :
       fn' = [fn EXCEPT !.results = Append(@, result),
                        !.pc = IF Len(fn.results) = 1 THEN "done" ELSE "ready"]
  /\ UNCHANGED <<mkVars, lfVars, pgVars, dirVars>>

\* commitBatch(provider, batchId, merkleRoot, memoHash, kindNumber): it throws
\* before .rpc(), or submits its transaction, which the program runs
CommitBatchCall ==
  /\ fn.op = "commitBatch" /\ fn.pc = "ready"
  /\ \E tx \in {CommitBatchTx(fn.wallet, fn.batchId, fn.merkleRoot, fn.memoHash,
                              fn.kindNumber)} :
       IF IsErr(tx)
       THEN /\ fn' = [fn EXCEPT !.pc = "done", !.result = tx]
            /\ UNCHANGED <<accounts, ledgerClock, txLog>>
       ELSE \E now \in ledgerClock..MaxClock :
            \E run \in {ProgramCommitBatch(accounts, now, tx.ok)} :
              /\ accounts' = run.accounts
              /\ ledgerClock' = now
              /\ txLog' = txLog \cup {[tab |-> 0, attempt |-> 1, tx |-> tx.ok,
                                        result |-> run.result, before |-> accounts,
                                        after |-> run.accounts]}
              /\ fn' = [fn EXCEPT !.pc = "done", !.submitted = <<tx.ok>>,
                                  !.result = IF run.result = "ok" THEN Ok([sig |-> 1])
                                             ELSE Throw(run.result)]
  /\ UNCHANGED <<page, call, clicks, mkVars, lfVars, dirVars>>

\* parseKind(value)
ParseKindCall ==
  /\ fn.op = "parseKind" /\ fn.pc = "ready"
  /\ fn' = [op |-> "parseKind", pc |-> "done", value |-> fn.value,
            result |-> ParseKind(fn.value)]
  /\ UNCHANGED <<mkVars, lfVars, pgVars, dirVars>>

\* parseU64(value)
ParseU64Call ==
  /\ fn.op = "parseU64" /\ fn.pc = "ready"
  /\ fn' = [op |-> "parseU64", pc |-> "done", value |-> fn.value,
            result |-> ParseU64(fn.value)]
  /\ UNCHANGED <<mkVars, lfVars, pgVars, dirVars>>

\* registerEntry(provider, targetProgramIdBase58, kindNumber), no other client
\* acting meanwhile: it throws before .rpc(), or submits its transaction, which
\* the program runs
RegisterEntryCall ==
  /\ fn.op = "registerEntry" /\ fn.pc = "ready"
  /\ \E state \in {FetchRegistryState(dirState, fn.naming)} :
     \E tx \in {IF IsErr(state) THEN state
                ELSE RegisterEntryTx(fn.wallet, state.ok, fn.targetProgramIdBase58,
                                     fn.kindNumber)} :
       IF IsErr(tx)
       THEN /\ fn' = [fn EXCEPT !.pc = "done", !.result = tx]
            /\ UNCHANGED <<dirState, dirEntries, dirLog>>
       ELSE \E run \in {ProgramRegisterEntry(Directory, tx.ok)} :
              /\ dirState' = run.state
              /\ dirEntries' = run.entries
              /\ dirLog' = dirLog \cup {[client |-> 0, tx |-> tx.ok, result |-> run.result,
                                         before |-> Directory,
                                         after |-> [state |-> run.state,
                                                    entries |-> run.entries]]}
              /\ fn' = [fn EXCEPT !.pc = "done", !.submitted = <<tx.ok>>,
                                  !.result = IF run.result = "ok" THEN Ok([sig |-> 1])
                                             ELSE Throw(run.result)]
  /\ UNCHANGED <<dirGenesis, dirCall, dirClicks, mkVars, lfVars, pgVars>>

\* a commit transaction built without commitBatch reaches the program: the
\* first of the two, then the second
ForeignCommitCall ==
  /\ fn.op = "foreignCommit" /\ fn.pc = "ready"
  /\ \E tx \in {fn.txs[Len(fn.results) + 1]} :
     \E now \in ledgerClock..MaxClock :
     \E run \in {ProgramCommitBatch(accounts, now, tx)} :
       /\ accounts' = run.accounts
       /\ ledgerClock' = now
       /\ txLog' = txLog \cup {[tab |-> 0, attempt |-> Len(fn.results) + 1, tx |-> tx,
                                 result |-> run.result, before |-> accounts,
                                 after |-> run.accounts]}
       /\ fn' = [fn EXCEPT !.results = Append(@, run.result),
                           !.pc = IF Len(fn.results) = 1 THEN "done" ELSE "ready"]
  /\ UNCHANGED <<page, call, clicks, mkVars, lfVars, dirVars>>

\* fetchRegistryState(provider), fetch having resolved to fn.account
FetchRegistryStateCall ==
  /\ fn.op = "fetchRegistryState" /\ fn.pc = "ready"
  /\ fn' = [op |-> "fetchRegistryState", pc |-> "done", account |-> fn.account,
            result |-> RegistryStateOf(fn.account)]
  /\ UNCHANGED <<mkVars, lfVars, pgVars, dirVars>>

\* fetchEntries(provider), all() having resolved to fn.entries
FetchEntriesCall ==
  /\ fn.op = "fetchEntries" /\ fn.pc = "ready"
  /\ fn' = [op |-> "fetchEntries", pc |-> "done", entries |-> fn.entries,
            result |-> EntriesOf(fn.entries)]
  /\ UNCHANGED <<mkVars, lfVars, pgVars, dirVars>>

NextCalls ==
  \/ FetchRegistryStateCall
  \/ FetchEntriesCall
  \/ HashLeafCall
  \/ ForeignCommitCall
  \/ HashMemoCall
  \/ CommitBatchCall
  \/ ParseKindCall
  \/ ParseU64Call
  \/ RegisterEntryCall

SpecCalls == InitCalls /\ [][NextCalls]_vars

(***************************************************************************)
(* Properties of hashLeaf (under SpecCalls).                               *)
(***************************************************************************)
HashLeafDone == fn.op = "hashLeaf" /\ fn.pc = "done"

ValidCreator(text) == ByteLength(Bs58Decode(text)) = PUBKEY_BYTES
ValidU64(v) == ~v.neg /\ Len(v.mag) <= U64_BYTES
ValidU32(v) == v.whole /\ ~v.neg /\ Len(v.mag) <= U32_BYTES

\* the value of little-endian bytes, as base-256 digits without leading zeros
LeValue(bytes) == StripZeros([i \in 1..Len(bytes) |-> bytes[i].b])

\* C11: the bytes hashLeaf hashes are, in this order and with nothing else,
\* "moat:v1" (7 bytes), the 32 creator bytes, the batch id in 8 bytes
\* little-endian, the index in 4 bytes little-endian, and the UTF-8 bytes of the
\* recipient identifier, of the amount and of the asset identifier; the digest
\* returned is the hash of exactly these bytes.
C11_LeafPreimageLayout ==
  HashLeafDone /\ IsOk(fn.result) =>
    LET data == fn.hashed[1]
        r == TextEncode(fn.input.recipient.recipientCaip10)
        a == TextEncode(fn.input.recipient.amount)
        t == TextEncode(fn.input.recipient.assetCaip19)
        tail == 7 + 1 + U64_BYTES + U32_BYTES
    IN /\ Len(fn.hashed) = 1
       /\ fn.result.ok = Sha256(data)
       /\ Len(data) = tail + Len(r) + Len(a) + Len(t)
       /\ ByteLength(data) = 7 + PUBKEY_BYTES + U64_BYTES + U32_BYTES + Len(r) + Len(a) + Len(t)
       /\ SubSeq(data, 1, 7) = <<Byte(109), Byte(111), Byte(97), Byte(116), Byte(58),
                                 Byte(118), Byte(49)>>
       /\ <<data[8]>> = Bs58Decode(fn.input.creator)
       /\ LeValue(SubSeq(data, 9, 8 + U64_BYTES)) = fn.input.batchId.mag
       /\ LeValue(SubSeq(data, 9 + U64_BYTES, tail)) = fn.input.index.mag
       /\ SubSeq(data, tail + 1, tail + Len(r)) = r
       /\ SubSeq(data, tail + Len(r) + 1, tail + Len(r) + Len(a)) = a
       /\ SubSeq(data, tail + Len(r) + Len(a) + 1, Len(data)) = t

\* a leaf of index 2^32 - 1 and batch id 258 whose recipient has a two-byte
\* character
C11_Witness ==
  /\ HashLeafDone /\ IsOk(fn.result)
  /\ fn.input.index.mag = U32MaxDigits
  /\ fn.input.batchId = BigNat(258)
  /\ fn.input.recipient.recipientCaip10 = <<233>>

\* C12: hashLeaf throws "Creator pubkey must be 32 bytes" when the creator
\* decodes to another length, and otherwise "Batch id must be a valid u64" or
\* "Index must be a valid u32" when the batch id is outside [0, 2^64 - 1] or
\* the index is not an integer of [0, 2^32 - 1]; whenever it throws it has
\* called no hash, and on valid arguments it returns a digest.
C12_LeafRejectsBeforeHashing ==
  HashLeafDone =>
    LET okCreator == ValidCreator(fn.input.creator)
        okBatch == ValidU64(fn.input.batchId)
        okIndex == ValidU32(fn.input.index)
    IN /\ ~okCreator => fn.result = Throw("Creator pubkey must be 32 bytes")
       /\ okCreator /\ ~okBatch => fn.result = Throw("Batch id must be a valid u64")
       /\ okCreator /\ okBatch /\ ~okIndex => fn.result = Throw("Index must be a valid u32")
       /\ IsErr(fn.result) => fn.hashed = <<>>
       /\ okCreator /\ okBatch /\ okIndex => IsOk(fn.result)

\* a call with a valid creator and batch id whose index is 2^32 was refused
C12_Witness ==
  /\ HashLeafDone /\ IsErr(fn.result)
  /\ ValidCreator(fn.input.creator) /\ ValidU64(fn.input.batchId)
  /\ fn.input.index.mag = U32OverDigits

(***************************************************************************)
(* Properties of hashMemo (under SpecCalls).                               *)
(***************************************************************************)
HashMemoDone == fn.op = "hashMemo" /\ fn.pc = "done"

\* an absent text read as the empty text
AbsentAsEmpty(opt) == IF opt = Undefined THEN [str |-> <<>>] ELSE opt

\* C13: two memos with the same createdAt whose titles, and whose notes, are
\* equal once an absent one is read as "" have the same digest.
C13_AbsentMemoFieldIsEmpty ==
  HashMemoDone =>
    (/\ AbsentAsEmpty(fn.memos[1].title) = AbsentAsEmpty(fn.memos[2].title)
     /\ AbsentAsEmpty(fn.memos[1].note) = AbsentAsEmpty(fn.memos[2].note)
     /\ fn.memos[1].createdAt = fn.memos[2].createdAt
     => fn.results[1] = fn.results[2])

\* a memo without title and with note "", hashed next to the memo with title ""
\* and without note
C13_Witness ==
  /\ HashMemoDone
  /\ fn.memos[1].title = Undefined /\ fn.memos[1].note = [str |-> <<>>]
  /\ fn.memos[2].title = [str |-> <<>>] /\ fn.memos[2].note = Undefined
  /\ fn.results[1] = fn.results[2]

(***************************************************************************)
(* Properties of commitBatch (under SpecCalls).                            *)
(***************************************************************************)
CommitBatchDone == fn.op = "commitBatch" /\ fn.pc = "done"

ValidKind(v) == v.whole /\ ~v.neg /\ Len(v.mag) <= 1

\* C14: commitBatch throws when the merkle root or the memo hash is not 32
\* bytes long ("Merkle root must be 32 bytes", "Memo hash must be 32 bytes" when
\* the kind is valid); it then has submitted no transaction and the registry
\* holds what it held.
C14_HashLengthGuard ==
  CommitBatchDone /\ (\/ ByteLength(fn.merkleRoot) # 32
                      \/ ByteLength(fn.memoHash) # 32) =>
    /\ IsErr(fn.result)
    /\ ValidKind(fn.kindNumber) =>
         fn.result = IF ByteLength(fn.merkleRoot) # 32
                     THEN Throw("Merkle root must be 32 bytes")
                     ELSE Throw("Memo hash must be 32 bytes")
    /\ fn.submitted = <<>>
    /\ accounts = {} /\ txLog = {}

\* a call with a 32-byte root and a 33-byte memo hash, otherwise valid, was
\* refused
C14_Witness ==
  /\ CommitBatchDone /\ IsErr(fn.result)
  /\ ByteLength(fn.merkleRoot) = 32 /\ ByteLength(fn.memoHash) = 33
  /\ ValidKind(fn.kindNumber) /\ ValidU64(fn.batchId)

(***************************************************************************)
(* Properties of the kind and batch id bounds (under SpecCalls).           *)
(***************************************************************************)
RegisterEntryDone == fn.op = "registerEntry" /\ fn.pc = "done"
ParseKindDone == fn.op = "parseKind" /\ fn.pc = "done"
ParseU64Done == fn.op = "parseU64" /\ fn.pc = "done"

KindError == Throw("Kind must be an integer between 0 and 255")

\* the kind texts that denote an integer of [0,255]: "0", "255", " 7 "
KindTextsInRange == {<<48>>, <<50, 53, 53>>, <<32, 55, 32>>}

\* C15: a kind is accepted exactly when it is an integer of [0,255].  commitBatch
\* throws the kind error for every other number, and only for those;
\* registerEntry throws it for every other number once it has read the
\* directory, and only for those; neither has then submitted a transaction, and
\* the registry and the directory hold what they held.  A valid kind reaches the
\* transaction unchanged.  parseKind returns the number for a text of digits
\* that denotes an integer of [0,255] and throws for every other text.
C15_KindBounds ==
  /\ CommitBatchDone =>
       /\ ~ValidKind(fn.kindNumber) =>
            fn.result = KindError /\ fn.submitted = <<>> /\ accounts = {} /\ txLog = {}
       /\ ValidKind(fn.kindNumber) =>
            /\ fn.result # KindError
            /\ \A i \in 1..Len(fn.submitted) : fn.submitted[i].kind = fn.kindNumber
  /\ RegisterEntryDone =>
       /\ ~ValidKind(fn.kindNumber) =>
            /\ IsErr(fn.result)
            /\ dirGenesis # Null => fn.result = KindError
            /\ fn.submitted = <<>>
            /\ dirState = dirGenesis /\ dirEntries = <<>> /\ dirLog = {}
       /\ ValidKind(fn.kindNumber) =>
            /\ fn.result # KindError
            /\ \A i \in 1..Len(fn.submitted) : fn.submitted[i].kind = fn.kindNumber
  /\ ParseKindDone =>
       /\ fn.value \in KindTextsInRange =>
            IsOk(fn.result) /\ ValidKind(fn.result.ok)
       /\ fn.value \notin KindTextsInRange =>
            fn.result = Throw("Kind must be a number between 0 and 255")
  /\ ParseKindDone /\ fn.value = <<50, 53, 53>> => fn.result = Ok(Num(255))

\* commitBatch with kind 255 and otherwise valid arguments created a record of
\* kind 255
C15_Witness ==
  /\ CommitBatchDone /\ IsOk(fn.result)
  /\ fn.kindNumber = Num(255)
  /\ \E a \in accounts : a.kind = Num(255)


\* the batch id texts that denote an integer of [0, 2^64 - 1]: "0", " 7", 2^64 - 1
BatchIdTextsInRange == {<<48>>, <<32, 55>>, U64MaxText}

\* C16: a batch id outside [0, 2^64 - 1] is rejected by parseU64, by hashLeaf
\* (toU64Le) and by commitBatch (the 8-byte seed encoding), which then has
\* submitted nothing; and no record has a batch id outside [0, 2^64 - 1].
C16_BatchIdBounds ==
  /\ ParseU64Done =>
       /\ fn.value \in BatchIdTextsInRange => IsOk(fn.result) /\ ValidU64(fn.result.ok)
       /\ fn.value \notin BatchIdTextsInRange => IsErr(fn.result)
  /\ HashLeafDone /\ ~ValidU64(fn.input.batchId) => IsErr(fn.result) /\ fn.hashed = <<>>
  /\ CommitBatchDone /\ ~ValidU64(fn.batchId) =>
       IsErr(fn.result) /\ fn.submitted = <<>> /\ accounts = {}
  /\ \A a \in accounts : ValidU64(a.batchId)

\* what does hold: parseU64 and hashLeaf reject every batch id outside
\* [0, 2^64 - 1], commitBatch rejects every batch id above 2^64 - 1, and no record
\* has a batch id outside [0, 2^64 - 1]; a negative batch id that commitBatch is
\* given is committed as its magnitude
BatchIdBoundsButSign ==
  /\ ParseU64Done =>
       /\ fn.value \in BatchIdTextsInRange => IsOk(fn.result) /\ ValidU64(fn.result.ok)
       /\ fn.value \notin BatchIdTextsInRange => IsErr(fn.result)
  /\ HashLeafDone /\ ~ValidU64(fn.input.batchId) => IsErr(fn.result) /\ fn.hashed = <<>>
  /\ CommitBatchDone /\ Len(fn.batchId.mag) > U64_BYTES =>
       IsErr(fn.result) /\ fn.submitted = <<>> /\ accounts = {}
  /\ CommitBatchDone /\ IsOk(fn.result) /\ fn.batchId.neg =>
       \E a \in accounts : a.batchId = [neg |-> FALSE, mag |-> fn.batchId.mag]
  /\ \A a \in accounts : ValidU64(a.batchId)


(***************************************************************************)
(* Properties of the signer of a commit (under SpecCalls).                 *)
(***************************************************************************)
ForeignCommitDone == fn.op = "foreignCommit" /\ fn.pc = "done"

\* C17: every record's creator signed the transaction that created it; a commit
\* transaction whose signer is not the creator it names fails with Unauthorized
\* and leaves the registry as it was; and the transaction commitBatch submits
\* is signed by the wallet, names the wallet as creator and addresses the batch
\* account derived from the wallet and the batch id.
C17_CreatorIsSigner ==
  /\ \A a \in accounts :
       \E e \in txLog :
         /\ e.result = "ok" /\ e.tx.batch = a.address
         /\ e.tx.creator = a.creator /\ e.tx.signer = a.creator
         /\ a \in e.after /\ a \notin e.before
  /\ \A e \in txLog :
       e.tx.signer # e.tx.creator => e.result = "Unauthorized" /\ e.after = e.before
  /\ CommitBatchDone =>
       \A i \in 1..Len(fn.submitted) :
         /\ fn.submitted[i].signer = fn.wallet
         /\ fn.submitted[i].creator = fn.wallet
         /\ fn.submitted[i].batch =
              FindProgramAddress(<<TextEncode(BATCH_SEED), fn.wallet,
                                   BnToArrayLe(fn.batchId, U64_BYTES).ok>>)

\* wallet 1 committed its batch 0, and then a transaction signed by wallet 2
\* that names wallet 1 as the creator of batch 1 was rejected
C17_Witness ==
  /\ ForeignCommitDone
  /\ fn.results = <<"ok", "Unauthorized">>
  /\ fn.txs[2].signer # fn.txs[2].creator
  /\ fn.txs[2].batchId # fn.txs[1].batchId
  /\ Cardinality(accounts) = 1


(***************************************************************************)
(* Properties of the directory (under SpecDirectory).                      *)
(***************************************************************************)
\* mag + n on base-256 digits
RECURSIVE Plus(_, _)
Plus(mag, n) == IF n = 0 THEN mag ELSE Plus(Increment(mag), n - 1)

\* the counter the directory started from: 0 for one initialised by a client
FirstId == IF dirGenesis = Null THEN <<>> ELSE dirGenesis.nextId

RegisterAttempts == {e \in dirLog : e.tx.op = "registerEntry"}

\* C18: the entries created are, in the order of their registration, those of
\* the ids first, first + 1, ..., nextId - 1 (first being 0 for a directory a
\* client initialised), each id at one entry and each entry at its own address;
\* a successful registration appends the entry of id nextId and adds 1 to
\* nextId, and a failed one changes nothing.
C18_IdsAreSequential ==
  /\ dirState = Null => dirEntries = <<>>
  /\ dirState # Null =>
       /\ dirState.nextId = Plus(FirstId, Len(dirEntries))
       /\ \A k \in 1..Len(dirEntries) : dirEntries[k].id = Plus(FirstId, k - 1)
  /\ \A j, k \in 1..Len(dirEntries) :
       j # k => /\ dirEntries[j].id # dirEntries[k].id
                /\ dirEntries[j].address # dirEntries[k].address
  /\ \A e \in RegisterAttempts :
       IF e.result = "ok"
       THEN /\ Len(e.after.entries) = Len(e.before.entries) + 1
            /\ SubSeq(e.after.entries, 1, Len(e.before.entries)) = e.before.entries
            /\ e.after.entries[Len(e.after.entries)].id = e.before.state.nextId
            /\ e.after.state.nextId = Increment(e.before.state.nextId)
       ELSE e.after = e.before

\* two clients read nextId 0 of a directory one of them initialised; one
\* registered entry 0, the other was refused and then registered entry 1
C18_Witness ==
  /\ dirGenesis = Null /\ dirState # Null
  /\ Len(dirEntries) = 2
  /\ dirEntries[1].id = <<>> /\ dirEntries[2].id = <<1>>
  /\ dirState.nextId = <<2>>
  /\ \E e \in RegisterAttempts :
       /\ e.result = "InvalidSeeds"
       /\ e.tx.entry = dirEntries[1].address
       /\ Len(e.before.entries) = 1


\* C19: a registerEntry transaction signed by a wallet that is not the admin the
\* directory records fails with Unauthorized and leaves nextId and the entries
\* as they were.
C19_OnlyAdminRegisters ==
  \A e \in RegisterAttempts :
    e.before.state # Null /\ e.tx.signer # e.before.state.admin =>
      /\ e.result = "Unauthorized"
      /\ e.after.state = e.before.state
      /\ e.after.entries = e.before.entries

\* the admin registered an entry, and a later attempt of the other wallet, well
\* formed for the nextId it read, was refused
C19_Witness ==
  \E e \in RegisterAttempts :
    /\ e.before.state # Null
    /\ e.tx.signer # e.before.state.admin
    /\ e.result = "Unauthorized"
    /\ Len(e.before.entries) = 1
    /\ e.tx.entry = FindProgramAddress(
                      EntrySeeds(GetRegistryPda, EncodeU32Le([mag |-> e.before.state.nextId])))
    /\ dirEntries = e.before.entries /\ dirState = e.before.state


\* C20: a registerEntry transaction that reaches a directory whose nextId is
\* 2^32 - 1 fails and leaves nextId and the entries as they were, with
\* CounterOverflow when the admin signed it for the entry address of that
\* nextId; and nextId is never above 2^32 - 1.
C20_CounterOverflow ==
  /\ \A e \in RegisterAttempts :
       e.before.state # Null /\ e.before.state.nextId = U32MaxDigits =>
         /\ e.result # "ok"
         /\ e.after = e.before
         /\ (/\ e.tx.signer = e.before.state.admin
             /\ e.tx.entry = FindProgramAddress(
                               EntrySeeds(GetRegistryPda, EncodeU32Le([mag |-> U32MaxDigits]))))
            => e.result = "CounterOverflow"
  /\ dirState # Null => Len(dirState.nextId) <= U32_BYTES
  /\ \A k \in 1..Len(dirEntries) : Len(dirEntries[k].id) <= U32_BYTES

\* the admin registered the entry of id 2^32 - 2, and the admin's next attempt
\* was refused with CounterOverflow
C20_Witness ==
  /\ dirState # Null /\ dirState.nextId = U32MaxDigits
  /\ Len(dirEntries) = 1 /\ dirEntries[1].id = LastIdDigits
  /\ \E e \in RegisterAttempts :
       /\ e.result = "CounterOverflow"
       /\ e.tx.signer = dirState.admin
       /\ e.before.entries = dirEntries


InitializeAttempts == {e \in dirLog : e.tx.op = "initialize"}

\* C21: an initialize transaction that reaches a directory whose state exists
\* fails with AlreadyInitialized and changes nothing, also when callInitialize
\* saw no state before it submitted; one that reaches no state succeeds and
\* records its signer as admin with nextId 0; callInitialize throws without
\* submitting only when the state exists; at most one initialize succeeds, and
\* no later transaction changes the admin.
C21_InitializedAtMostOnce ==
  /\ \A e \in InitializeAttempts :
       IF e.before.state # Null
       THEN e.result = "AlreadyInitialized" /\ e.after = e.before
       ELSE /\ e.result = "ok"
            /\ e.after.state = [admin |-> e.tx.signer, nextId |-> <<>>, bump |-> 255]
            /\ e.after.entries = e.before.entries
  /\ \A e, f \in InitializeAttempts : e.result = "ok" /\ f.result = "ok" => e = f
  /\ \A e \in dirLog :
       e.before.state # Null =>
         e.after.state # Null /\ e.after.state.admin = e.before.state.admin
  /\ dirState # Null /\ dirGenesis = Null =>
       \E e \in InitializeAttempts : e.result = "ok" /\ dirState.admin = e.tx.signer
  /\ \A c \in DirClients :
       dirCall[c].result = Throw("Registry already initialized on devnet") =>
         dirState # Null

\* two wallets ran callInitialize on a directory without state; the first to
\* land became admin and registered entry 0; the second then landed and was
\* refused, the admin and nextId 1 staying
C21_Witness ==
  /\ dirGenesis = Null /\ dirState # Null
  /\ dirState.nextId = <<1>> /\ Len(dirEntries) = 1
  /\ \E e \in InitializeAttempts :
       /\ e.result = "AlreadyInitialized"
       /\ e.tx.signer # dirState.admin
       /\ e.before = Directory


(***************************************************************************)
(* Properties of the directory reads (under SpecCalls).                    *)
(***************************************************************************)
FetchRegistryStateDone == fn.op = "fetchRegistryState" /\ fn.pc = "done"
FetchEntriesDone == fn.op = "fetchEntries" /\ fn.pc = "done"

\* the two representations of a state (RegistryStateCamel, RegistryStateSnake)
\* and of an entry (RegistryEntryCamel, RegistryEntrySnake)
IsStateCamel(v) ==
  /\ v # Null
  /\ IsPublicKey(Field(v, "admin")) /\ IsBN(Field(v, "nextId")) /\ IsNumber(Field(v, "bump"))
IsStateSnake(v) ==
  /\ v # Null
  /\ IsPublicKey(Field(v, "admin")) /\ IsBN(Field(v, "next_id")) /\ IsNumber(Field(v, "bump"))
IsEntryCommon(v) ==
  /\ IsPublicKey(Field(v, "registry")) /\ IsPublicKey(Field(v, "admin"))
  /\ (IsNumber(Field(v, "id")) \/ IsBN(Field(v, "id")))
  /\ IsNumber(Field(v, "kind")) /\ IsNumber(Field(v, "bump"))
IsEntryCamel(v) == IsEntryCommon(v) /\ IsPublicKey(Field(v, "targetProgram"))
IsEntrySnake(v) == IsEntryCommon(v) /\ IsPublicKey(Field(v, "target_program"))

\* the record of a state and of an entry in either representation
CanonicalState(v) ==
  [admin |-> v.admin, nextId |-> IF IsStateCamel(v) THEN v.nextId ELSE v.next_id,
   bump |-> v.bump]
CanonicalTarget(v) ==
  IF IsPublicKey(Field(v, "targetProgram")) THEN v.targetProgram
  ELSE Field(v, "target_program")

\* C22: fetchRegistryState returns the canonical record of a fetched value in
\* the camelCase or in the snake_case representation and throws for a value in
\* neither; fetchEntries returns records when every fetched value is an entry in
\* one of the two representations, each with the target program of its value,
\* and throws when a fetched value is in neither.
C22_ReadsEitherNamingOrFail ==
  /\ FetchRegistryStateDone =>
       IF IsStateCamel(fn.account) \/ IsStateSnake(fn.account)
       THEN fn.result = Ok(CanonicalState(fn.account))
       ELSE IsErr(fn.result)
  /\ FetchEntriesDone =>
       IF \A i \in 1..Len(fn.entries) :
            IsEntryCamel(fn.entries[i].account) \/ IsEntrySnake(fn.entries[i].account)
       THEN IsErr(fn.result) =>
              \E i \in 1..Len(fn.entries) : IsBN(fn.entries[i].account.id)
       ELSE IsErr(fn.result)

\* what does hold: the camelCase and the snake_case object of one state give
\* the same record, as do those of one entry; a value with no BN counter, no
\* PublicKey admin or no number bump is refused, and so is an entry value with no
\* PublicKey target program or no number kind
ReadsOfEitherNaming ==
  /\ FetchRegistryStateDone =>
       /\ "next_id" \notin DOMAIN fn.account /\ IsStateCamel(fn.account) =>
            fn.result = Ok(CanonicalState(fn.account))
       /\ "nextId" \notin DOMAIN fn.account /\ IsStateSnake(fn.account) =>
            fn.result = Ok(CanonicalState(fn.account))
       /\ ~IsStateCamel(fn.account) /\ ~IsStateSnake(fn.account) => IsErr(fn.result)
  /\ FetchEntriesDone =>
       /\ (\E i \in 1..Len(fn.entries) :
             LET v == fn.entries[i].account IN
             \/ ~IsPublicKey(Field(v, "targetProgram")) /\ ~IsPublicKey(Field(v, "target_program"))
             \/ ~IsNumber(Field(v, "kind")))
          => IsErr(fn.result)
       /\ IsOk(fn.result) =>
            /\ Len(fn.result.ok) = Len(fn.entries)
            /\ \A r \in {fn.result.ok[k] : k \in 1..Len(fn.result.ok)} :
                 \E i \in 1..Len(fn.entries) :
                   /\ r.publicKey = fn.entries[i].publicKey
                   /\ r.targetProgram = CanonicalTarget(fn.entries[i].account)


\* C30: when fetchRegistryState returns, the nextId it returns is a BN: the
\* fetched value's nextId if that is a BN, and its next_id otherwise.
C30_ReturnedCounterIsBN ==
  FetchRegistryStateDone /\ IsOk(fn.result) =>
    /\ IsBN(fn.result.ok.nextId)
    /\ fn.result.ok.nextId = IF IsBN(Field(fn.account, "nextId")) THEN fn.account.nextId
                             ELSE fn.account.next_id

\* what does hold: the nextId returned is the fetched value's nextId when the
\* value has that key, whatever it holds, and its next_id otherwise
ReturnedCounterIsFirstKey ==
  FetchRegistryStateDone /\ IsOk(fn.result) =>
    fn.result.ok.nextId = IF "nextId" \in DOMAIN fn.account THEN fn.account.nextId
                          ELSE fn.account.next_id


(***************************************************************************)
(* Properties of one onCommit invocation (under Spec).                     *)
(***************************************************************************)
\* an onCommit of tab t that ended in its catch block, or at its first return,
\* without reaching setStatus("sending")
FailedWhileBuilding(t) ==
  /\ clicks'.commit = clicks.commit + 1
  /\ call[t].pc = "idle" /\ ~IsBusy(page[t])
  /\ page'[t] # page[t]
  /\ page'[t].status = "error"

\* C23: an onCommit that fails before it sends (parsing, recipient validation,
\* leaf hashing, root computation, memo hashing) has submitted no transaction,
\* leaves the registry as it was, starts no call, and leaves none of the fields
\* of an attempt set: signature, digests, batch info, snapshot, adapter status.
C23_FailFast ==
  [][\A t \in Tabs :
       FailedWhileBuilding(t) =>
         /\ txLog' = txLog /\ accounts' = accounts
         /\ call' = call
         /\ page'[t].errorMessage # Null
         /\ page'[t].signature = Null /\ page'[t].batchInfo = Null
         /\ page'[t].merkleRootHex = Null /\ page'[t].memoHashHex = Null
         /\ page'[t].commitSnapshot = Null
         /\ page'[t].adapterStatus = Null]_vars

\* what does hold: the same, but for the adapter status, which is set when the
\* failure is one of hashing
FailFastButAdapterStatus ==
  [][\A t \in Tabs :
       FailedWhileBuilding(t) =>
         /\ txLog' = txLog /\ accounts' = accounts
         /\ call' = call
         /\ page'[t].errorMessage # Null
         /\ page'[t].signature = Null /\ page'[t].batchInfo = Null
         /\ page'[t].merkleRootHex = Null /\ page'[t].memoHashHex = Null
         /\ page'[t].commitSnapshot = Null
         /\ (page'[t].adapterStatus # Null =>
               page'[t].errorMessage = [msg |-> "WebCrypto is not available in this environment"])]_vars


(***************************************************************************)
(* More properties of leaves and roots (under SpecLeaves, SpecMerkle).     *)
(***************************************************************************)
\* two recipient lists that are, position by position, the same bytes
SameRecipientBytes ==
  /\ Len(lfRecipients[1]) = Len(lfRecipients[2])
  /\ \A i \in 1..Len(lfRecipients[1]) :
       RecipientBytes(lfRecipients[1][i]) = RecipientBytes(lfRecipients[2][i])

\* C24: for one creator, batch id and index the leaf depends only on the
\* concatenation recipient || amount || asset: two recipient lists that agree,
\* position by position, on that concatenation have the same leaves and the
\* same root, whatever the three fields of each recipient are.
C24_FieldBoundaryAmbiguity ==
  (BothDone /\ SameRecipientBytes) =>
    /\ lfLeaves[1] = lfLeaves[2]
    /\ lfRoot[1] = lfRoot[2]

\* ("ab","c","d") and ("a","bc","d") have the same leaf and the same root
C24_Witness ==
  /\ BothDone
  /\ lfRecipients[1] = <<Row(<<97, 98>>, <<99>>, <<100>>)>>
  /\ lfRecipients[2] = <<Row(<<97>>, <<98, 99>>, <<100>>)>>
  /\ lfLeaves[1] = lfLeaves[2]
  /\ lfRoot[1] = lfRoot[2]

\* C25: buildLeafHashes returns one leaf per recipient, in the order of the
\* recipients, the leaf of position i being hashLeaf of index i (zero-based) and
\* recipient i, in whatever order the leaf hashes completed.
C25_LeavesInRecipientOrder ==
  \A r \in Runs :
    lfPc[r] = "done" =>
      /\ IsOk(lfLeaves[r])
      /\ Len(lfLeaves[r].ok) = Len(lfRecipients[r])
      /\ \A i \in 1..Len(lfRecipients[r]) :
           Ok(lfLeaves[r].ok[i]) =
             HashLeaf([creator |-> lfCreator, batchId |-> lfBatchId, index |-> Num(i - 1),
                       recipient |-> lfRecipients[r][i]])

\* two different recipients whose second leaf hash completed first
C25_Witness ==
  /\ lfPc[1] = "done"
  /\ Len(lfRecipients[1]) = 2
  /\ RecipientBytes(lfRecipients[1][1]) # RecipientBytes(lfRecipients[1][2])
  /\ ~lfInOrder[1]
  /\ lfLeaves[1].ok[1] # lfLeaves[1].ok[2]


\* C26: on every non-empty input computeMerkleRoot returns; each pass of its
\* loop replaces a level of length n > 1 by one of length ceil(n / 2), it
\* returns when one digest is left, that digest being its result, and the
\* caller's leaf sequence is never changed.
C26_Terminates ==
  /\ [](\A k \in 1..(Len(mkLevels) - 1) :
          /\ Len(mkLevels[k]) > 1
          /\ Len(mkLevels[k + 1]) = (Len(mkLevels[k]) + 1) \div 2)
  /\ [](mkPc = "returned" =>
          /\ Len(Last(mkLevels)) = 1
          /\ mkResult = Ok(Last(mkLevels)[1]))
  /\ [](mkPc \in {"loop", "returned"} => mkLevels[1] = mkLeaves)
  /\ [][mkLeaves' = mkLeaves]_vars
  /\ (Len(mkLeaves) > 0) ~> (mkPc = "returned")

\* four leaves went through levels of 4, 2 and 1 digests
C26_Witness ==
  /\ mkPc = "returned" /\ Len(mkLeaves) = 4
  /\ Len(mkLevels) = 3 /\ Len(mkLevels[2]) = 2 /\ Len(mkLevels[3]) = 1
  /\ mkLevels[1] = mkLeaves

\* C27: the root of a leaf sequence of odd length n >= 3 is the root of the
\* sequence of length n + 1 that repeats its last leaf.
C27_OddLengthSharesRootWithPadded ==
  (mkPc = "returned" /\ IsOdd(Len(mkLeaves)) /\ Len(mkLeaves) >= 3) =>
    mkResult = ComputeMerkleRoot(Append(mkLeaves, Last(mkLeaves)))

\* [A,B,C], the three different, has the root of [A,B,C,C]
C27_Witness ==
  /\ mkPc = "returned" /\ Len(mkLeaves) = 3
  /\ mkLeaves[1] # mkLeaves[2] /\ mkLeaves[2] # mkLeaves[3] /\ mkLeaves[1] # mkLeaves[3]
  /\ mkResult = ComputeMerkleRoot(<<mkLeaves[1], mkLeaves[2], mkLeaves[3], mkLeaves[3]>>)


\* the messages of the model that contain "blockhash not found" in any case
BlockhashNotFound ==
  {"Transaction simulation failed: Blockhash not found",
   "failed to send transaction: blockhash not found"}

\* C28: one onCommit submits the transaction at most twice; the second
\* submission, through a rebuilt provider, follows only a first attempt that
\* failed with a "blockhash not found" message; every other failure, and every
\* failure of the second attempt, ends the call in status "error".
C28_AtMostOneRetry ==
  [][\A t \in Tabs :
       /\ call[t].pc = "send" => call[t].attempt \in {1, 2} /\ call[t].sent = call[t].attempt - 1
       /\ call[t].pc = "fetch" => call[t].attempt \in {1, 2} /\ call[t].sent = call[t].attempt
       /\ (call[t].pc # "idle" /\ call'[t] # call[t]) =>
            \/ /\ call[t].pc = "send" /\ call'[t].pc = "fetch"
               /\ call'[t].attempt = call[t].attempt
            \/ /\ call[t].pc = "fetch" /\ call'[t] = NoCall
               /\ page'[t].status = "confirmed"
            \/ /\ call[t].attempt = 1 /\ call'[t].attempt = 2 /\ call'[t].pc = "send"
               /\ call'[t].retriedAfter # Null
               /\ call'[t].retriedAfter.msg \in BlockhashNotFound
               /\ call'[t].provider = BuildProvider(call[t].provider.wallet, "refreshed")
               /\ page'[t].provider = call'[t].provider
               /\ page'[t].status = "sending"
            \/ /\ call'[t] = NoCall
               /\ page'[t].status = "error"
               /\ \/ call[t].attempt = 2
                  \/ page'[t].errorMessage.msg \notin BlockhashNotFound]_vars

\* a call that was retried after the lower-case message, submitted twice and
\* ended in status "error" when the second submission failed too
C28_Witness ==
  \E t \in Tabs :
    /\ page[t].status = "error" /\ call[t] = NoCall
    /\ page[t].provider # Null /\ page[t].provider.conn = "refreshed"
    /\ page[t].errorMessage = [msg |-> "failed to send transaction: blockhash not found"]


\* C29: an onCommit call that finishes in status "error" created no record;
\* one that created a record finishes in status "confirmed" with the
\* signature and the batch info set.
C29_ErrorMeansNoRecord ==
  [][\A t \in Tabs :
       (call[t].pc # "idle" /\ call'[t].pc = "idle") =>
         /\ page'[t].status = "error" => ~call[t].created
         /\ call[t].created =>
              /\ page'[t].status = "confirmed"
              /\ page'[t].signature # Null
              /\ page'[t].batchInfo # Null]_vars

\* what holds instead: a call that created a record has its signature set
\* however it finishes, and fails only in the read that follows the send
RecordCreatedMeansSignature ==
  [][\A t \in Tabs :
       (call[t].pc # "idle" /\ call'[t].pc = "idle" /\ call[t].created) =>
         /\ page'[t].signature # Null
         /\ page'[t].status = "error" => call[t].pc = "fetch" /\ page'[t].batchInfo = Null
         /\ page'[t].status = "confirmed" => page'[t].batchInfo # Null]_vars

====
